---- MODULE Spec2Model ----
(***************************************************************************)
(* Model of the contree rules engine (valmathieu/ContrAI):                 *)
(*   - the bid classes and BidValidator of contree/model/bid.py,           *)
(*   - Contract of contree/model/contract.py,                              *)
(*   - Round.manage_bidding, Round.play_trick and                          *)
(*     Round._get_playable_cards of contree/model/round.py,                *)
(*   - Game of contree/model/game.py,                                      *)
(*   - Card of contree/model/card.py, Deck of contree/model/deck.py and    *)
(*     Trick of contree/model/trick.py.                                    *)
(* Spec is the bidding phase of a round (one step per bid requested from   *)
(* a player); SpecPlay is the trick play of a round (one step per card     *)
(* requested from a player).                                               *)
(***************************************************************************)
EXTENDS Integers, Sequences, FiniteSets, TLC

VARIABLES
    bid_objects,        \* Round.manage_bidding: the list of accepted Bid objects
    passes_count,       \* Round.manage_bidding: passes_count
    turn,               \* Round.manage_bidding: index in players_order of the for loop
    bid_choice,         \* Round.manage_bidding: the bid_choice last returned by a player
    has_double,         \* Round.manage_bidding: local has_double (FALSE until computed)
    has_redouble,       \* Round.manage_bidding: local has_redouble (FALSE until computed)
    pc,                 \* position of the round: "bidding", "done", "raised", "playing", "played"
    error,              \* the exception that left the handler, "none" if none
    contract,           \* Round.contract
    hands,              \* player.hand of the four players of players_order
    current_trick,      \* Round.current_trick.plays: sequence of <<player, card>>
    last_trick_winner,  \* Round.last_trick_winner (NoPlayer for None)
    tricks,             \* Round.tricks: the completed tricks
    trick_num,          \* Round.play_all_tricks: tricks played so far (trick_num of the loop)
    trick_pos,          \* Round.play_trick: index in trick_order of the player to act
    deck,               \* Round.deck.cards
    team_tricks,        \* Round.team_tricks: for each team, the tricks it has won
    round_scores,       \* Round.round_scores: for each team, its score of the round
    players,            \* Game.players: the seated players, by position
    teams,              \* Game.teams: for each team, the positions of its players
    dealer,             \* Game.dealer: index in Game.players (NoPlayer for None)
    players_order,      \* Game.players_order: indices in Game.players
    round_number,       \* Game.round_number
    scores,             \* Game.scores: for each team, its cumulative score
    game_result         \* the dict last returned by a method of Game

vars == <<bid_objects, passes_count, turn, bid_choice, has_double, has_redouble,
          pc, error, contract, hands, current_trick, last_trick_winner, tricks,
          trick_num, trick_pos, deck, team_tricks, round_scores,
          players, teams, dealer, players_order, round_number, scores, game_result>>

gameVars == <<players, teams, dealer, players_order, round_number, scores, game_result>>
bidVars == <<bid_objects, passes_count, turn, bid_choice, has_double, has_redouble>>
playVars == <<hands, current_trick, last_trick_winner, tricks, trick_num, trick_pos, deck,
              team_tricks, round_scores>>

(***************************************************************************)
(* Bounds of the model.                                                    *)
(***************************************************************************)
\* Bids requested from the players before the model stops asking.
MaxBids == 6
\* The same for the biddings of SpecFlags, whose players offer less.
MaxFlagBids == 8
\* Tricks played by SpecPlay from its initial hands.
MaxTricks == 1
\* Cards of the short decks cut by SpecCut.
MaxCutLen == 10

(***************************************************************************)
(* Players and teams.  A player is its index in Round.players_order.  Game *)
(* seats the players North, West, South, East, puts North and South in one *)
(* team and East and West in the other, and players_order is a rotation of *)
(* the seating: the teams alternate along players_order.                   *)
(***************************************************************************)
NumPlayers == 4
Players == 0 .. (NumPlayers - 1)
NoPlayer == 0 - 1
Team(p) == p % 2
Teams == {Team(p) : p \in Players}
\* self.team_tricks = {team.name: [] for team in teams}; self.round_scores = {}
NoTricks == [t \in Teams |-> <<>>]
NoScores == [t \in {} |-> 0]
\* No dict returned yet.
NoResult == [kind |-> "None"]
\* No Game: the round stands alone.
NoGame ==
    /\ players = <<>>
    /\ teams = <<>>
    /\ dealer = NoPlayer
    /\ players_order = <<>>
    /\ round_number = 0
    /\ scores = NoScores
    /\ game_result = NoResult

(***************************************************************************)
(* bid.py: the bid values.  'Capot' is written as the number               *)
(* ContractBid.get_numeric_value gives it, which no numeric value equals.  *)
(***************************************************************************)
Capot == 250
VALID_VALUES == <<80, 90, 100, 110, 120, 130, 140, 150, 160, Capot>>
VALID_SUITS == <<"Spades", "Hearts", "Diamonds", "Clubs", "NoTrump">>

Range(s) == {s[i] : i \in DOMAIN s}

PassBid(p) == [kind |-> "Pass", player |-> p, value |-> 0, suit |-> "-"]
DoubleBid(p) == [kind |-> "Double", player |-> p, value |-> 0, suit |-> "-"]
RedoubleBid(p) == [kind |-> "Redouble", player |-> p, value |-> 0, suit |-> "-"]
ContractBid(p, v, s) == [kind |-> "Contract", player |-> p, value |-> v, suit |-> s]

\* ContractBid.__init__ raises ValueError on a value or a suit outside the lists.
ContractBidRaises(v, s) == v \notin Range(VALID_VALUES) \/ s \notin Range(VALID_SUITS)

\* for bid in reversed(bids): if isinstance(bid, ContractBid): return/break.
\* The index of the last Contract bid of bids, 0 if there is none.
RECURSIVE LastContractFrom(_, _)
LastContractFrom(bids, i) ==
    IF i = 0 THEN 0
    ELSE IF bids[i].kind = "Contract" THEN i
    ELSE LastContractFrom(bids, i - 1)

PassIsValidAfter(bid, previous_bids) == TRUE

ContractIsValidAfter(bid, previous_bids) ==
    LET last == LastContractFrom(previous_bids, Len(previous_bids)) IN
    IF last = 0 THEN TRUE
    ELSE IF bid.value = Capot THEN TRUE
    ELSE IF previous_bids[last].value = Capot THEN FALSE
    ELSE bid.value > previous_bids[last].value

\* The reversed scan of DoubleBid.is_valid_after, from index i down, with the
\* loop's locals; the result is the locals when the loop ends.
RECURSIVE DoubleScan(_, _, _, _)
DoubleScan(bids, i, hasDouble, passes) ==
    IF i = 0
    THEN [last_contract |-> 0, has_double |-> hasDouble, passes |-> passes, returned |-> FALSE]
    ELSE IF bids[i].kind = "Contract"
    THEN [last_contract |-> i, has_double |-> hasDouble, passes |-> passes, returned |-> FALSE]
    ELSE IF bids[i].kind = "Double" THEN DoubleScan(bids, i - 1, TRUE, passes)
    ELSE IF bids[i].kind = "Redouble"
    THEN [last_contract |-> 0, has_double |-> hasDouble, passes |-> passes, returned |-> TRUE]
    ELSE IF bids[i].kind = "Pass" THEN DoubleScan(bids, i - 1, hasDouble, passes + 1)
    ELSE DoubleScan(bids, i - 1, hasDouble, passes)

\* DoubleIsValidAfter without the comparison of the teams.
DoubleIsValidAfterAnyTeam(bid, previous_bids) ==
    IF Len(previous_bids) = 0 THEN FALSE
    ELSE LET r == DoubleScan(previous_bids, Len(previous_bids), FALSE, 0) IN
         IF r.returned THEN FALSE
         ELSE IF r.last_contract = 0 \/ r.has_double THEN FALSE
         ELSE IF r.passes > 0 THEN FALSE
         ELSE TRUE

DoubleIsValidAfter(bid, previous_bids) ==
    IF Len(previous_bids) = 0 THEN FALSE
    ELSE LET r == DoubleScan(previous_bids, Len(previous_bids), FALSE, 0) IN
         IF r.returned THEN FALSE
         ELSE IF r.last_contract = 0 \/ r.has_double THEN FALSE
         ELSE IF Team(previous_bids[r.last_contract].player) = Team(bid.player) THEN FALSE
         ELSE IF r.passes > 0 THEN FALSE
         ELSE TRUE

\* The reversed scan of RedoubleBid.is_valid_after; contract_player is NoPlayer
\* for None.
RECURSIVE RedoubleScan(_, _, _, _)
RedoubleScan(bids, i, contractPlayer, passes) ==
    IF i = 0
    THEN [contract_player |-> contractPlayer, has_double |-> FALSE,
          has_redouble |-> FALSE, passes |-> passes]
    ELSE IF bids[i].kind = "Redouble"
    THEN [contract_player |-> contractPlayer, has_double |-> FALSE,
          has_redouble |-> TRUE, passes |-> passes]
    ELSE IF bids[i].kind = "Double"
    THEN [contract_player |-> contractPlayer, has_double |-> TRUE,
          has_redouble |-> FALSE, passes |-> passes]
    ELSE IF bids[i].kind = "Pass" THEN RedoubleScan(bids, i - 1, contractPlayer, passes + 1)
    ELSE IF bids[i].kind = "Contract" THEN RedoubleScan(bids, i - 1, bids[i].player, passes)
    ELSE RedoubleScan(bids, i - 1, contractPlayer, passes)

RedoubleIsValidAfter(bid, previous_bids) ==
    IF Len(previous_bids) = 0 THEN FALSE
    ELSE LET r == RedoubleScan(previous_bids, Len(previous_bids), NoPlayer, 0) IN
         IF ~r.has_double \/ r.has_redouble \/ r.contract_player = NoPlayer THEN FALSE
         ELSE IF Team(r.contract_player) # Team(bid.player) THEN FALSE
         ELSE IF r.passes > 0 THEN FALSE
         ELSE TRUE

\* bid.is_valid_after(previous_bids), dispatched on the class of bid.
IsValidAfter(bid, previous_bids) ==
    CASE bid.kind = "Pass" -> PassIsValidAfter(bid, previous_bids)
      [] bid.kind = "Contract" -> ContractIsValidAfter(bid, previous_bids)
      [] bid.kind = "Double" -> DoubleIsValidAfter(bid, previous_bids)
      [] bid.kind = "Redouble" -> RedoubleIsValidAfter(bid, previous_bids)

\* A validator that accepts every bid.
IsBidValidAlways(bid, previous_bids) == TRUE

IsBidValid(bid, previous_bids) == IsValidAfter(bid, previous_bids)

GetLastContract(bids) == LastContractFrom(bids, Len(bids))

\* BidValidator.has_double: reversed scan, stops at the first Contract.
RECURSIVE HasDoubleFrom(_, _)
HasDoubleFrom(bids, i) ==
    IF i = 0 THEN FALSE
    ELSE IF bids[i].kind = "Contract" THEN FALSE
    ELSE IF bids[i].kind = "Double" THEN TRUE
    ELSE HasDoubleFrom(bids, i - 1)

HasDouble(bids) == HasDoubleFrom(bids, Len(bids))

\* BidValidator.has_redouble: reversed scan, stops at the first Double.
RECURSIVE HasRedoubleFrom(_, _)
HasRedoubleFrom(bids, i) ==
    IF i = 0 THEN FALSE
    ELSE IF bids[i].kind = "Double" THEN FALSE
    ELSE IF bids[i].kind = "Redouble" THEN TRUE
    ELSE HasRedoubleFrom(bids, i - 1)

HasRedouble(bids) == HasRedoubleFrom(bids, Len(bids))

(***************************************************************************)
(* contract.py: Contract.  None is Python's None.                          *)
(***************************************************************************)
None == [kind |-> "None"]

\* Contract.__init__(player, value, suit, double, redouble)
ContractInit(player, value, suit, double, redouble) ==
    [kind |-> "Contract", player |-> player, team |-> Team(player), value |-> value,
     suit |-> suit, double |-> double, redouble |-> redouble]

GetMultiplier(c) == IF c.redouble THEN 4 ELSE IF c.double THEN 2 ELSE 1

(***************************************************************************)
(* round.py: Round.manage_bidding.                                         *)
(***************************************************************************)
\* What a player's choose_bid (or the view) may return: 'Pass', 'Double',
\* 'Redouble', a (value, suit) tuple, or anything else ("Other": None, a
\* malformed tuple, an unknown string).
NoChoice == [kind |-> "NoChoice", value |-> 0, suit |-> "-"]
OfferedValues == {80, 90, Capot}
OfferedSuits == {"Hearts", "NoTrump"}
\* Tuples ContractBid.__init__ refuses: a value, then a suit, outside the lists.
RefusedTuples ==
    {[kind |-> "Tuple", value |-> 85, suit |-> "Hearts"],
     [kind |-> "Tuple", value |-> 80, suit |-> "Stars"]}
BidChoices ==
    {[kind |-> k, value |-> 0, suit |-> "-"] : k \in {"Pass", "Double", "Redouble", "Other"}}
    \cup {[kind |-> "Tuple", value |-> v, suit |-> s] : v \in OfferedValues, s \in OfferedSuits}
    \cup RefusedTuples

\* Round._create_bid_from_choice: the ValueError of ContractBid.__init__ is
\* caught and a PassBid returned.
CreateBidFromChoice(player, choice) ==
    CASE choice.kind = "Pass" -> PassBid(player)
      [] choice.kind = "Double" -> DoubleBid(player)
      [] choice.kind = "Redouble" -> RedoubleBid(player)
      [] choice.kind = "Tuple" ->
            IF ContractBidRaises(choice.value, choice.suit)
            THEN PassBid(player)
            ELSE ContractBid(player, choice.value, choice.suit)
      [] OTHER -> PassBid(player)

HasNonPass(bids) == \E i \in DOMAIN bids : bids[i].kind # "Pass"

LastFourAllPass(bids) ==
    \A i \in DOMAIN bids : i > Len(bids) - 4 => bids[i].kind = "Pass"

\* The break taken one pass early.
EndAfterPassesTwo(passes, bids) == passes >= 2 /\ Len(bids) > 3 /\ HasNonPass(bids)

\* passes_count >= 3 and len(bid_objects) > 3 and has_non_pass: the break of
\* the for loop, tested again by the while loop.
EndAfterPasses(passes, bids) == passes >= 3 /\ Len(bids) > 3 /\ HasNonPass(bids)

\* Tested when the for loop has run over the four players without a break.
EndAllPassed(bids) == Len(bids) >= 4 /\ LastFourAllPass(bids)

\* Lines 121-133.  Contract.__init__ takes (player, value, suit, ...); the call
\* Contract(contract_bid, double=..., redouble=...) gives it neither value nor
\* suit, so Python raises TypeError and self.contract keeps its value.
ResolveContract(bids, old) ==
    LET contract_bid == GetLastContract(bids) IN
    IF contract_bid # 0
    THEN [contract |-> old, error |-> "TypeError",
          has_double |-> HasDouble(bids), has_redouble |-> HasRedouble(bids)]
    ELSE [contract |-> None, error |-> "none", has_double |-> FALSE, has_redouble |-> FALSE]

\* One iteration of the for loop: the bid of players_order[turn], and, when the
\* loops end on it, the creation of the contract.
\* The place in players_order of the next player asked: the for loop over
\* players_order, started again by the while loop.
NextTurnSkipping(t) == (t + 2) % NumPlayers
NextTurn(t) == (t + 1) % NumPlayers

BidWithin(choice, limit) ==
    /\ pc = "bidding"
    /\ Len(bid_objects) < limit
    /\ LET player == turn
           bid_obj == CreateBidFromChoice(player, choice)
           valid == IsBidValid(bid_obj, bid_objects)
           newBids == Append(bid_objects, IF valid THEN bid_obj ELSE PassBid(player))
           newPasses == IF valid /\ bid_obj.kind # "Pass" THEN 0 ELSE passes_count + 1
           stop == \/ EndAfterPasses(newPasses, newBids)
                   \/ (turn = NumPlayers - 1 /\ EndAllPassed(newBids))
           r == ResolveContract(newBids, contract)
       IN /\ bid_choice' = choice
          /\ bid_objects' = newBids
          /\ passes_count' = newPasses
          /\ IF stop
             THEN /\ turn' = turn
                  /\ contract' = r.contract
                  /\ error' = r.error
                  /\ has_double' = r.has_double
                  /\ has_redouble' = r.has_redouble
                  /\ pc' = IF r.error = "none" THEN "done" ELSE "raised"
             ELSE /\ turn' = NextTurn(turn)
                  /\ UNCHANGED <<contract, error, has_double, has_redouble, pc>>
    /\ UNCHANGED <<gameVars, playVars>>

\* The bid of a player whose choose_bid returns choice.
Bid(choice) == BidWithin(choice, MaxBids)

(***************************************************************************)
(* card.py and deck.py.                                                    *)
(***************************************************************************)
SUITS == <<"Spades", "Hearts", "Diamonds", "Clubs">>
RANKS == <<"7", "8", "9", "Jack", "Queen", "King", "10", "Ace">>
Card(suit, rank) == [suit |-> suit, rank |-> rank]

\* Deck.__init__: [Card(suit, rank) for suit in SUITS for rank in RANKS]
DeckInit ==
    [i \in 1 .. (Len(SUITS) * Len(RANKS)) |->
        Card(SUITS[((i - 1) \div Len(RANKS)) + 1], RANKS[((i - 1) % Len(RANKS)) + 1])]

NoCard == [suit |-> "None", rank |-> "None"]

NORMAL_ORDER ==
    [r \in Range(RANKS) |->
        CASE r = "7" -> 0 [] r = "8" -> 1 [] r = "9" -> 2 [] r = "Jack" -> 3
          [] r = "Queen" -> 4 [] r = "King" -> 5 [] r = "10" -> 6 [] r = "Ace" -> 7]

TRUMP_ORDER ==
    [r \in Range(RANKS) |->
        CASE r = "7" -> 0 [] r = "8" -> 1 [] r = "Queen" -> 2 [] r = "King" -> 3
          [] r = "10" -> 4 [] r = "Ace" -> 5 [] r = "9" -> 6 [] r = "Jack" -> 7]

\* The order of a card taken from the normal table whatever the trump suit.
GetOrderNormalOnly(card, trump_suit) == NORMAL_ORDER[card.rank]

\* Card.get_order(trump_suit); "None" is Python's None, the only falsy suit.
GetOrder(card, trump_suit) ==
    IF trump_suit # "None" /\ card.suit = trump_suit
    THEN TRUMP_ORDER[card.rank]
    ELSE NORMAL_ORDER[card.rank]

\* The methods of class Deck: what a call on Round.deck can find.
DeckMethods ==
    {"__init__", "shuffle", "cut", "deal", "reset", "is_empty", "cards_remaining",
     "__len__", "__str__", "__repr__"}

(***************************************************************************)
(* round.py: Round._get_playable_cards, _determine_trick_winner and        *)
(* play_trick.  A play is <<player, card>>.                                *)
(***************************************************************************)
\* self.contract.suit if self.contract else None
TrumpSuitOf(c) == IF c # None THEN c.suit ELSE "None"

\* The selection without its filter on the suit.
CardsOfAnySuit(hand, suit) == hand

\* [card for card in player.hand if card.suit == suit]
CardsOfSuit(hand, suit) == SelectSeq(hand, LAMBDA c : c.suit = suit)

\* The comparison of two Team objects that are never the same object.
SameTeamNever(p, q) == FALSE

\* trick_leader.team == player_team
SameTeam(p, q) == Team(p) = Team(q)

\* The loop without the test that the trump was played by an opponent.
RECURSIVE HighestTrumpFrom(_, _, _, _, _)
HighestTrumpFrom(plays, i, player, trump_suit, highest) ==
    IF i > Len(plays) THEN highest
    ELSE LET card == plays[i][2]
         IN IF /\ card.suit = trump_suit
               /\ (\/ highest = NoCard
                   \/ GetOrder(card, trump_suit) > GetOrder(highest, trump_suit))
            THEN HighestTrumpFrom(plays, i + 1, player, trump_suit, card)
            ELSE HighestTrumpFrom(plays, i + 1, player, trump_suit, highest)

\* The loop over plays of lines 444-449, from play i on, with the highest
\* opponent trump found so far (NoCard for None).
RECURSIVE HighestOpponentTrumpFrom(_, _, _, _, _)
HighestOpponentTrumpFrom(plays, i, player, trump_suit, highest) ==
    IF i > Len(plays) THEN highest
    ELSE LET trick_player == plays[i][1]
             card == plays[i][2]
         IN IF /\ card.suit = trump_suit
               /\ Team(trick_player) # Team(player)
               /\ (\/ highest = NoCard
                   \/ GetOrder(card, trump_suit) > GetOrder(highest, trump_suit))
            THEN HighestOpponentTrumpFrom(plays, i + 1, player, trump_suit, card)
            ELSE HighestOpponentTrumpFrom(plays, i + 1, player, trump_suit, highest)

GetPlayableCards(hand, player, plays, trump_suit) ==
    IF hand = <<>> THEN <<>>
    ELSE IF plays = <<>> THEN hand
    ELSE
      LET lead_suit == plays[1][2].suit
          lead_suit_cards == CardsOfSuit(hand, lead_suit)
          trick_leader == plays[1][1]
          partner_is_leading == SameTeam(trick_leader, player)
          trump_cards == CardsOfSuit(hand, trump_suit)
          highest_opponent_trump ==
              HighestOpponentTrumpFrom(plays, 1, player, trump_suit, NoCard)
          higher_trumps ==
              SelectSeq(trump_cards,
                        LAMBDA c : GetOrder(c, trump_suit)
                                      > GetOrder(highest_opponent_trump, trump_suit))
      IN IF lead_suit_cards # <<>> THEN lead_suit_cards
         ELSE IF partner_is_leading THEN hand
         ELSE IF trump_suit = "None" \/ lead_suit = trump_suit THEN hand
         ELSE IF highest_opponent_trump # NoCard
         THEN IF higher_trumps # <<>> THEN higher_trumps
              ELSE IF trump_cards # <<>> THEN trump_cards
              ELSE hand
         ELSE IF trump_cards # <<>> THEN trump_cards
              ELSE hand

\* The loop of _determine_trick_winner over plays[1:], from play i on, with
\* best = <<best_player, best_card>>.
RECURSIVE BestPlayFrom(_, _, _, _)
BestPlayFrom(plays, i, trump_suit, best) ==
    IF i > Len(plays) THEN best
    ELSE LET player == plays[i][1]
             card == plays[i][2]
             lead_suit == plays[1][2].suit
             card_is_trump == trump_suit # "None" /\ card.suit = trump_suit
             best_is_trump == trump_suit # "None" /\ best[2].suit = trump_suit
         IN IF card_is_trump /\ ~best_is_trump
            THEN BestPlayFrom(plays, i + 1, trump_suit, plays[i])
            ELSE IF card_is_trump /\ best_is_trump
            THEN IF GetOrder(card, trump_suit) > GetOrder(best[2], trump_suit)
                 THEN BestPlayFrom(plays, i + 1, trump_suit, plays[i])
                 ELSE BestPlayFrom(plays, i + 1, trump_suit, best)
            ELSE IF ~card_is_trump /\ ~best_is_trump /\ card.suit = lead_suit
            THEN IF GetOrder(card, "None") > GetOrder(best[2], "None")
                 THEN BestPlayFrom(plays, i + 1, trump_suit, plays[i])
                 ELSE BestPlayFrom(plays, i + 1, trump_suit, best)
            ELSE BestPlayFrom(plays, i + 1, trump_suit, best)

DetermineTrickWinner(plays, trump_suit) ==
    IF plays = <<>> THEN NoPlayer
    ELSE BestPlayFrom(plays, 2, trump_suit, plays[1])[1]

Remove(hand, card) ==
    LET i == CHOOSE j \in DOMAIN hand : hand[j] = card /\ \A k \in DOMAIN hand : hand[k] = card => j <= k
    IN SubSeq(hand, 1, i - 1) \o SubSeq(hand, i + 1, Len(hand))

\* trick_leader and the player of place i of trick_order.
TrickLeader == IF last_trick_winner = NoPlayer THEN 0 ELSE last_trick_winner
TrickOrder(i) == (TrickLeader + i) % NumPlayers

\* The card played when any card of the hand is taken as it is returned.
CardPlayedUnchecked(card, playable_cards, hand) ==
    IF card # NoCard /\ card \in Range(hand)
    THEN card
    ELSE IF card # NoCard /\ playable_cards # <<>>
    THEN playable_cards[1]
    ELSE NoCard

\* The card a player ends up playing for the choice returned (NoCard when the
\* player plays nothing): lines 171-179.
CardPlayed(card, playable_cards, hand) ==
    IF card # NoCard /\ card \in Range(playable_cards) /\ card \in Range(hand)
    THEN card
    ELSE IF card # NoCard /\ playable_cards # <<>>
    THEN playable_cards[1]
    ELSE NoCard

\* range(8) of play_all_tricks.
NumTricks == 8

\* One iteration of the loop of play_trick over trick_order: the card of the
\* player to act and, after the fourth player, the winner and the recording of
\* the trick.  A trick with plays is then handed to self.deck.add_cards, which
\* class Deck does not define: AttributeError leaves play_trick and
\* play_all_tricks.  An empty trick is not, and play_all_tricks calls
\* play_trick again, which makes a new Trick.
PlayCard(card) ==
    /\ pc = "playing"
    /\ trick_num < MaxTricks
    /\ LET player == TrickOrder(trick_pos)
           trump_suit == TrumpSuitOf(contract)
           playable_cards == GetPlayableCards(hands[player], player, current_trick, trump_suit)
           played == CardPlayed(card, playable_cards, hands[player])
           newPlays == IF played = NoCard THEN current_trick
                       ELSE Append(current_trick, <<player, played>>)
       IN /\ hands' = IF played = NoCard THEN hands
                      ELSE [hands EXCEPT ![player] = Remove(hands[player], played)]
          /\ IF trick_pos < NumPlayers - 1
             THEN /\ current_trick' = newPlays
                  /\ trick_pos' = trick_pos + 1
                  /\ UNCHANGED <<last_trick_winner, tricks, team_tricks, trick_num, pc, error>>
             ELSE /\ last_trick_winner' = DetermineTrickWinner(newPlays, trump_suit)
                  /\ IF newPlays # <<>>
                     THEN /\ tricks' = Append(tricks, newPlays)
                          /\ team_tricks' =
                                LET winner == DetermineTrickWinner(newPlays, trump_suit)
                                IN [team_tricks EXCEPT
                                       ![Team(winner)] = Append(@, newPlays)]
                          /\ current_trick' = newPlays
                          /\ "add_cards" \notin DeckMethods
                          /\ error' = "AttributeError"
                          /\ pc' = "raised"
                          /\ UNCHANGED <<trick_num, trick_pos>>
                     ELSE /\ UNCHANGED <<tricks, team_tricks>>
                          /\ current_trick' = <<>>
                          /\ trick_num' = trick_num + 1
                          /\ trick_pos' = 0
                          /\ pc' = IF trick_num + 1 < NumTricks THEN "playing" ELSE "played"
                          /\ UNCHANGED error
    /\ UNCHANGED <<gameVars, bidVars, contract, deck, round_scores>>

(***************************************************************************)
(* The bidding of a round: the state after Round.__init__ with a new deck  *)
(* and four players, then manage_bidding.                                  *)
(***************************************************************************)
Init ==
    /\ bid_objects = <<>>
    /\ passes_count = 0
    /\ turn = 0
    /\ bid_choice = NoChoice
    /\ has_double = FALSE
    /\ has_redouble = FALSE
    /\ pc = "bidding"
    /\ error = "none"
    /\ contract = None
    /\ hands = [p \in Players |-> <<>>]
    /\ current_trick = <<>>
    /\ last_trick_winner = NoPlayer
    /\ tricks = <<>>
    /\ trick_num = 0
    /\ trick_pos = 0
    /\ deck = DeckInit
    /\ team_tricks = NoTricks
    /\ round_scores = NoScores
    /\ NoGame

Next == \E choice \in BidChoices : Bid(choice)

Spec == Init /\ [][Next]_vars

(***************************************************************************)
(* The play of a round: the state when play_all_tricks starts, with the    *)
(* hands the players hold and the contract of the round.  The cards of the *)
(* model are those of PoolCards, all of them dealt, each hand in the order *)
(* of PoolCards.                                                           *)
(***************************************************************************)
PoolCards ==
    <<Card("Spades", "7"), Card("Spades", "Ace"),
      Card("Hearts", "7"), Card("Hearts", "Queen"), Card("Hearts", "9"), Card("Hearts", "Jack"),
      Card("Diamonds", "7"), Card("Diamonds", "Ace")>>
HandSize == Len(PoolCards) \div NumPlayers
\* The ways to deal PoolCards: who gets each card.  Spades and Diamonds hold
\* the same ranks and neither is ever trump here, so the deals are taken up to
\* their exchange: the 7 of Spades sits no later than the 7 of Diamonds.
Deals ==
    {d \in [DOMAIN PoolCards -> Players] :
        /\ \A p \in Players : Cardinality({i \in DOMAIN PoolCards : d[i] = p}) = HandSize
        /\ d[1] <= d[7]}
RECURSIVE HandFrom(_, _, _)
HandFrom(d, p, i) ==
    IF i > Len(PoolCards) THEN <<>>
    ELSE IF d[i] = p THEN <<PoolCards[i]>> \o HandFrom(d, p, i + 1)
    ELSE HandFrom(d, p, i + 1)
PlaySuits == {"Hearts", "NoTrump"}
PlayContracts == {None} \cup {ContractInit(0, 80, s, FALSE, FALSE) : s \in PlaySuits}
\* What choose_card returns to the engine: a card of the player's hand, legal
\* or not, a card that is in no hand, or None.
AbsentCard == Card("Clubs", "8")
CardChoices(player) == Range(hands[player]) \cup {AbsentCard, NoCard}

InitPlay ==
    /\ bid_objects = <<>>
    /\ passes_count = 0
    /\ turn = 0
    /\ bid_choice = NoChoice
    /\ has_double = FALSE
    /\ has_redouble = FALSE
    /\ pc = "playing"
    /\ error = "none"
    /\ contract \in PlayContracts
    /\ \E d \in Deals : hands = [p \in Players |-> HandFrom(d, p, 1)]
    /\ current_trick = <<>>
    /\ last_trick_winner = NoPlayer
    /\ tricks = <<>>
    /\ trick_num = 0
    /\ trick_pos = 0
    /\ deck = <<>>
    /\ team_tricks = NoTricks
    /\ round_scores = NoScores
    /\ NoGame

NextPlay == \E card \in CardChoices(TrickOrder(trick_pos)) : PlayCard(card)

SpecPlay == InitPlay /\ [][NextPlay]_vars

(***************************************************************************)
(* What the bidding rules say, written on the history alone.               *)
(***************************************************************************)
ContractIndices(h) == {i \in DOMAIN h : h[i].kind = "Contract"}
LastContractIndex(h) ==
    IF ContractIndices(h) = {} THEN 0
    ELSE CHOOSE i \in ContractIndices(h) : \A j \in ContractIndices(h) : j <= i
\* The place of a value in the order 80 < 90 < ... < 160 < Capot.
ValueRank(v) == CHOOSE i \in DOMAIN VALID_VALUES : VALID_VALUES[i] = v
KindsAfter(h, i) == {h[j].kind : j \in {j \in DOMAIN h : j > i}}
Prefix(h, n) == SubSeq(h, 1, n)
Ended == pc \in {"done", "raised"}
\* The player asked for the last bid of a history of n bids.
AuthorOf(n) == (n - 1) % NumPlayers
TrailingPasses(h) ==
    Cardinality({i \in DOMAIN h : \A j \in DOMAIN h : j >= i => h[j].kind = "Pass"})

RuleContractValid(v, h) ==
    \/ LastContractIndex(h) = 0
    \/ ValueRank(v) > ValueRank(h[LastContractIndex(h)].value)

RuleDoubleValid(p, h) ==
    /\ LastContractIndex(h) # 0
    /\ KindsAfter(h, LastContractIndex(h)) \cap {"Double", "Redouble", "Pass"} = {}
    /\ Team(p) # Team(h[LastContractIndex(h)].player)

DoubleIndices(h) == {i \in DOMAIN h : h[i].kind = "Double"}
RuleRedoubleValid(p, h) ==
    /\ LastContractIndex(h) # 0
    /\ \E d \in DoubleIndices(h) :
          KindsAfter(h, d) \cap {"Double", "Redouble", "Pass"} = {}
    /\ Team(p) = Team(h[LastContractIndex(h)].player)

\* (a) a non-Pass bid and the three most recent bids all Pass, or (b) exactly
\* four bids, all Pass.
StopPoint(h) ==
    \/ /\ HasNonPass(h)
       /\ Len(h) >= 3
       /\ \A i \in DOMAIN h : i > Len(h) - 3 => h[i].kind = "Pass"
    \/ /\ Len(h) = 4
       /\ ~HasNonPass(h)

\* The choice is refused: unrecognised, a tuple outside the allowed sets, or
\* a bid that is not valid after the history.
Refused(choice, p, h) ==
    \/ choice.kind = "Other"
    \/ /\ choice.kind = "Tuple"
       /\ (choice.value \notin Range(VALID_VALUES) \/ choice.suit \notin Range(VALID_SUITS))
    \/ /\ choice.kind = "Tuple"
       /\ choice.value \in Range(VALID_VALUES)
       /\ choice.suit \in Range(VALID_SUITS)
       /\ ~IsValidAfter(ContractBid(p, choice.value, choice.suit), h)
    \/ choice.kind = "Double" /\ ~IsValidAfter(DoubleBid(p), h)
    \/ choice.kind = "Redouble" /\ ~IsValidAfter(RedoubleBid(p), h)

(***************************************************************************)
(* Claims on the bidding, checked under Spec.                              *)
(***************************************************************************)

\* C1: a Contract bid is valid after the accepted history iff the history has
\* no Contract or its value is strictly above the last Contract's value in the
\* order 80 < ... < 160 < Capot (nothing is valid over Capot), so the values of
\* the accepted Contract bids strictly increase.
C1_ContractValidIffHigher ==
    /\ \A v \in OfferedValues, s \in OfferedSuits :
          ContractIsValidAfter(ContractBid(turn, v, s), bid_objects)
              <=> RuleContractValid(v, bid_objects)
    /\ \A i, j \in ContractIndices(bid_objects) :
          i < j => ValueRank(bid_objects[i].value) < ValueRank(bid_objects[j].value)

\* C2: a Double by p is valid iff the history has a Contract, no Double,
\* Redouble or Pass follows the last Contract, and p is not of the team of the
\* last Contract's player; a Double offered by a player of the contracting
\* team is recorded as a Pass of that player.
C2_DoubleValidIff ==
    /\ \A p \in Players :
          DoubleIsValidAfter(DoubleBid(p), bid_objects) <=> RuleDoubleValid(p, bid_objects)
    /\ LET n == Len(bid_objects)
           prev == Prefix(bid_objects, n - 1)
       IN (/\ n >= 1
           /\ bid_choice.kind = "Double"
           /\ LastContractIndex(prev) # 0
           /\ Team(AuthorOf(n)) = Team(prev[LastContractIndex(prev)].player))
          => bid_objects[n] = PassBid(AuthorOf(n))

\* A Double was accepted, and the next Double, offered by the partner of the
\* contracting player, was recorded as a Pass.
C2_Witness ==
    /\ Len(bid_objects) = 3
    /\ bid_objects[1].kind = "Contract"
    /\ bid_objects[2] = DoubleBid(1)
    /\ bid_choice.kind = "Double"
    /\ bid_objects[3] = PassBid(2)
    /\ DoubleIsValidAfter(DoubleBid(1), Prefix(bid_objects, 1))
    /\ ~DoubleIsValidAfter(DoubleBid(2), Prefix(bid_objects, 1))

\* C3: a Redouble by p is valid iff the history has a Double with no Redouble
\* and no Pass after it and p is of the team of the last Contract's player.
C3_RedoubleValidIff ==
    \A p \in Players :
        RedoubleIsValidAfter(RedoubleBid(p), bid_objects) <=> RuleRedoubleValid(p, bid_objects)

\* C4: manage_bidding stops asking for bids exactly at the first history that
\* is a stop point: it is not at a stop point while it asks, and when it has
\* stopped the history is a stop point and none of its proper prefixes is.
C4_StopsExactlyAtFirstStopPoint ==
    /\ pc = "bidding" => ~StopPoint(bid_objects)
    /\ Ended =>
          /\ StopPoint(bid_objects)
          /\ \A k \in 0 .. (Len(bid_objects) - 1) : ~StopPoint(Prefix(bid_objects, k))

\* Bidding has stopped on three passes after a bid that came after a first
\* round of the table.
C4_Witness ==
    /\ Ended
    /\ HasNonPass(bid_objects)
    /\ Len(bid_objects) > 4

C6_ResolvedContractIsLastContractBid ==
    Ended =>
        /\ (contract = None) <=> (LastContractIndex(bid_objects) = 0)
        /\ (LastContractIndex(bid_objects) = 0)
              <=> (Len(bid_objects) >= 4 /\ ~HasNonPass(Prefix(bid_objects, 4)))
        /\ contract # None =>
              LET b == bid_objects[LastContractIndex(bid_objects)] IN
              /\ contract.value = b.value
              /\ contract.suit = b.suit
              /\ contract.player = b.player

\* C7: when bidding has ended with a Contract bid, the contract's double flag
\* is true iff a Double follows the last Contract bid, its redouble flag iff a
\* Redouble follows it, and its multiplier is 4 when redoubled, 2 when doubled
\* only, 1 otherwise.
C7_FlagsAndMultiplier ==
    (Ended /\ LastContractIndex(bid_objects) # 0) =>
        /\ contract # None
        /\ contract.double <=>
              ("Double" \in KindsAfter(bid_objects, LastContractIndex(bid_objects)))
        /\ contract.redouble <=>
              ("Redouble" \in KindsAfter(bid_objects, LastContractIndex(bid_objects)))
        /\ GetMultiplier(contract) =
              (IF contract.redouble THEN 4 ELSE IF contract.double THEN 2 ELSE 1)

(***************************************************************************)
(* Claims on the legal cards, checked under SpecPlay at the points where   *)
(* play_trick asks a player for a card.                                    *)
(***************************************************************************)
ToAct == TrickOrder(trick_pos)
HandOf(p) == Range(hands[p])
LegalSeq == GetPlayableCards(hands[ToAct], ToAct, current_trick, TrumpSuitOf(contract))
Legal == Range(LegalSeq)
Asking == pc = "playing" /\ trick_num < MaxTricks
LeadSuit == current_trick[1][2].suit
Leader == current_trick[1][1]
Trump == TrumpSuitOf(contract)
TrumpInForce == Trump \in Range(SUITS)
HoldsSuit(p, suit) == \E c \in HandOf(p) : c.suit = suit
TrumpsOf(p) == {c \in HandOf(p) : c.suit = Trump}
\* The trumps the opponents of p have played in the trick in progress.
OpponentTrumps(p) ==
    {current_trick[i][2] : i \in {j \in DOMAIN current_trick :
        Team(current_trick[j][1]) # Team(p) /\ current_trick[j][2].suit = Trump}}
PartnerTrumps(p) ==
    {current_trick[i][2] : i \in {j \in DOMAIN current_trick :
        Team(current_trick[j][1]) = Team(p) /\ current_trick[j][2].suit = Trump}}
MaxTrumpOrder(cards) ==
    CHOOSE h \in {TRUMP_ORDER[c.rank] : c \in cards} :
        \A c \in cards : TRUMP_ORDER[c.rank] <= h

\* C8: when a card has been played in the trick and the player to act holds a
\* card of the lead suit, the legal cards are exactly the player's cards of
\* the lead suit.
C8_MustFollowSuit ==
    (Asking /\ current_trick # <<>> /\ HoldsSuit(ToAct, LeadSuit)) =>
        /\ Legal = {c \in HandOf(ToAct) : c.suit = LeadSuit}
        /\ Len(LegalSeq) = Cardinality(Legal)

\* The player to act holds a card of the lead suit and a card of another suit,
\* under a trump suit.
C8_Witness ==
    /\ Asking
    /\ current_trick # <<>>
    /\ TrumpInForce
    /\ HoldsSuit(ToAct, LeadSuit)
    /\ \E c \in HandOf(ToAct) : c.suit # LeadSuit
    /\ Legal # HandOf(ToAct)

\* C9: under a trump suit, with a lead suit that is not trump, a player with no
\* card of the lead suit and at least one trump may play only trumps when an
\* opponent led, and the whole hand when the partner led.
C9_TrumpUnlessPartnerLed ==
    (/\ Asking
     /\ current_trick # <<>>
     /\ TrumpInForce
     /\ LeadSuit # Trump
     /\ ~HoldsSuit(ToAct, LeadSuit)
     /\ TrumpsOf(ToAct) # {}) =>
        IF Team(Leader) # Team(ToAct)
        THEN Legal # {} /\ Legal \subseteq TrumpsOf(ToAct)
        ELSE Legal = HandOf(ToAct)

\* An opponent led, the player to act has no card of the lead suit, a trump
\* and a card that is no trump.
C9_Witness ==
    /\ Asking
    /\ current_trick # <<>>
    /\ TrumpInForce
    /\ LeadSuit # Trump
    /\ ~HoldsSuit(ToAct, LeadSuit)
    /\ TrumpsOf(ToAct) # {}
    /\ TrumpsOf(ToAct) # HandOf(ToAct)
    /\ Team(Leader) # Team(ToAct)
    /\ Legal = TrumpsOf(ToAct)

\* C10: when the player to act cannot follow suit, an opponent led, the lead
\* suit is not trump and the opponents have played trumps, of highest trump
\* order H, the legal cards are the player's trumps above H if there are any,
\* else the player's trumps if there are any, else the whole hand; the
\* partner's trumps do not count in H.
C10_OverTrump ==
    (/\ Asking
     /\ current_trick # <<>>
     /\ TrumpInForce
     /\ LeadSuit # Trump
     /\ ~HoldsSuit(ToAct, LeadSuit)
     /\ Team(Leader) # Team(ToAct)
     /\ OpponentTrumps(ToAct) # {}) =>
        LET H == MaxTrumpOrder(OpponentTrumps(ToAct))
            higher == {c \in TrumpsOf(ToAct) : TRUMP_ORDER[c.rank] > H}
        IN Legal = IF higher # {} THEN higher
                   ELSE IF TrumpsOf(ToAct) # {} THEN TrumpsOf(ToAct)
                   ELSE HandOf(ToAct)

\* An opponent has trumped, the partner has played a higher trump, and the
\* player to act holds a trump above the opponent's and below the partner's,
\* and a lower trump: only the first is legal.
C10_Witness ==
    /\ Asking
    /\ current_trick # <<>>
    /\ TrumpInForce
    /\ LeadSuit # Trump
    /\ ~HoldsSuit(ToAct, LeadSuit)
    /\ Team(Leader) # Team(ToAct)
    /\ OpponentTrumps(ToAct) # {}
    /\ PartnerTrumps(ToAct) # {}
    /\ MaxTrumpOrder(PartnerTrumps(ToAct)) > MaxTrumpOrder(OpponentTrumps(ToAct))
    /\ \E c \in TrumpsOf(ToAct) :
          /\ TRUMP_ORDER[c.rank] > MaxTrumpOrder(OpponentTrumps(ToAct))
          /\ TRUMP_ORDER[c.rank] < MaxTrumpOrder(PartnerTrumps(ToAct))
    /\ \E c \in TrumpsOf(ToAct) : TRUMP_ORDER[c.rank] < MaxTrumpOrder(OpponentTrumps(ToAct))
    /\ Cardinality(Legal) = 1

(***************************************************************************)
(* The winner of a trick: Round._determine_trick_winner applied to a trick *)
(* of one to four plays, made of distinct cards of WinnerPool by the       *)
(* players that follow the leader, under each kind of trump suit.          *)
(***************************************************************************)
WinnerPool ==
    <<Card("Spades", "7"), Card("Spades", "King"), Card("Spades", "Ace"),
      Card("Hearts", "7"), Card("Hearts", "Ace"), Card("Hearts", "9"), Card("Hearts", "Jack"),
      Card("Diamonds", "Ace"), Card("Diamonds", "10")>>
WinnerSuits == {"Hearts", "Spades", "Clubs", "NoTrump"}
WinnerContracts == {None} \cup {ContractInit(0, 80, s, FALSE, FALSE) : s \in WinnerSuits}
\* The tricks of n plays led by leader.
TricksOf(n, leader) ==
    {[i \in 1 .. n |-> <<(leader + i - 1) % NumPlayers, WinnerPool[f[i]]>>] :
        f \in {g \in [1 .. n -> DOMAIN WinnerPool] :
                  \A i, j \in 1 .. n : i # j => g[i] # g[j]}}

InitWinner ==
    /\ bid_objects = <<>>
    /\ passes_count = 0
    /\ turn = 0
    /\ bid_choice = NoChoice
    /\ has_double = FALSE
    /\ has_redouble = FALSE
    /\ pc = "trick"
    /\ error = "none"
    /\ contract \in WinnerContracts
    /\ hands = [p \in Players |-> <<>>]
    /\ \E n \in 1 .. NumPlayers, leader \in Players : current_trick \in TricksOf(n, leader)
    /\ last_trick_winner = NoPlayer
    /\ tricks = <<>>
    /\ trick_num = 0
    /\ trick_pos = 0
    /\ deck = <<>>
    /\ team_tricks = NoTricks
    /\ round_scores = NoScores
    /\ NoGame

\* winner = self._determine_trick_winner(self.current_trick);
\* self.last_trick_winner = winner
DetermineWinner ==
    /\ pc = "trick"
    /\ last_trick_winner' = DetermineTrickWinner(current_trick, TrumpSuitOf(contract))
    /\ pc' = "won"
    /\ UNCHANGED <<gameVars, bidVars, error, contract, hands, current_trick, tricks, trick_num,
                   trick_pos, deck, team_tricks, round_scores>>

NextWinner == DetermineWinner

SpecWinner == InitWinner /\ [][NextWinner]_vars

(***************************************************************************)
(* Claims on the winner of a trick, checked under SpecWinner.              *)
(***************************************************************************)
\* The places of the trick whose card is of the suit.
PlacesOfSuit(plays, suit) == {i \in DOMAIN plays : plays[i][2].suit = suit}
\* The place, among places, of the card that is highest in the order table.
HighestPlace(plays, places, order) ==
    CHOOSE i \in places : \A j \in places : order[plays[j][2].rank] <= order[plays[i][2].rank]

\* C11: the winner of a non-empty trick is the player of the highest trump, in
\* trump order, when a trump was played, and otherwise the player of the
\* highest card of the lead suit, in normal order; a card that is neither
\* trump nor of the lead suit never wins.
C11_WinnerIsHighestTrumpOrLead ==
    pc = "won" =>
        LET plays == current_trick
            trumps == PlacesOfSuit(plays, TrumpSuitOf(contract))
            leads == PlacesOfSuit(plays, plays[1][2].suit)
        IN /\ last_trick_winner =
                 IF trumps # {} THEN plays[HighestPlace(plays, trumps, TRUMP_ORDER)][1]
                 ELSE plays[HighestPlace(plays, leads, NORMAL_ORDER)][1]
           /\ \E i \in trumps \cup leads : plays[i][1] = last_trick_winner

\* With trump Hearts the trick Spades-Ace, Hearts-7, Spades-King, Diamonds-Ace
\* has been given to the player of Hearts-7.
C11_Witness ==
    /\ pc = "won"
    /\ TrumpSuitOf(contract) = "Hearts"
    /\ Len(current_trick) = 4
    /\ current_trick[1][2] = Card("Spades", "Ace")
    /\ current_trick[2][2] = Card("Hearts", "7")
    /\ current_trick[3][2] = Card("Spades", "King")
    /\ current_trick[4][2] = Card("Diamonds", "Ace")
    /\ last_trick_winner = current_trick[2][1]

(***************************************************************************)
(* Claims on the card played, checked under SpecPlay.                      *)
(***************************************************************************)
\* C12: in every step of play_trick where the value returned by the player is
\* not a card of the legal set (a card absent from the hand, a card of the
\* hand that is not legal, or no card), the first card of the legal set is
\* played and exactly that card leaves the player's hand, and the step raises
\* no error (after the fourth player an error can only come from what
\* play_trick does after the loop, which is left out here).
C12_IllegalChoiceIsClamped ==
    [][\A card \in CardChoices(ToAct) :
          (Asking /\ card \notin Legal /\ PlayCard(card)) =>
              /\ hands' = [hands EXCEPT ![ToAct] = Remove(hands[ToAct], LegalSeq[1])]
              /\ current_trick' = Append(current_trick, <<ToAct, LegalSeq[1]>>)
              /\ (trick_pos < NumPlayers - 1 => error' = "none")]_vars

(***************************************************************************)
(* card.py: the points of a card; contract.py: the contract's own scoring  *)
(* methods; round.py: Round.calculate_round_scores.                        *)
(***************************************************************************)
NORMAL_POINTS ==
    [r \in Range(RANKS) |->
        CASE r = "7" -> 0 [] r = "8" -> 0 [] r = "9" -> 0 [] r = "Jack" -> 2
          [] r = "Queen" -> 3 [] r = "King" -> 4 [] r = "10" -> 10 [] r = "Ace" -> 11]

TRUMP_POINTS ==
    [r \in Range(RANKS) |->
        CASE r = "7" -> 0 [] r = "8" -> 0 [] r = "9" -> 14 [] r = "Jack" -> 20
          [] r = "Queen" -> 3 [] r = "King" -> 4 [] r = "10" -> 10 [] r = "Ace" -> 11]

\* Card.get_points(trump_suit)
GetPoints(card, trump_suit) ==
    IF trump_suit # "None" /\ card.suit = trump_suit
    THEN TRUMP_POINTS[card.rank]
    ELSE NORMAL_POINTS[card.rank]

\* Contract.is_made(team_points): team_points >= self.value.  The value of a
\* Capot contract is the string 'Capot', which Python does not compare with
\* an int: TypeError.
IsMade(c, team_points) ==
    IF c.value = Capot
    THEN [error |-> "TypeError", result |-> FALSE]
    ELSE [error |-> "none", result |-> team_points >= c.value]

\* base_value of lines 291, 300 and 310 (the same as Contract.get_base_points)
GetBasePoints(c) == IF c.value = Capot THEN 250 ELSE c.value

\* The plays of the tricks of a list, in the order of the two for loops of
\* lines 246-250.
RECURSIVE PlaysOfTricks(_)
PlaysOfTricks(trick_list) ==
    IF trick_list = <<>> THEN <<>>
    ELSE Head(trick_list) \o PlaysOfTricks(Tail(trick_list))

\* points += card.get_points(trump_suit), over plays from place i on.
RECURSIVE PointsFrom(_, _, _)
PointsFrom(plays, i, trump_suit) ==
    IF i > Len(plays) THEN 0
    ELSE GetPoints(plays[i][2], trump_suit) + PointsFrom(plays, i + 1, trump_suit)

\* trump_cards_played of a team: the ranks of the trumps in the tricks of
\* team_tricks[team_name].
TrumpCardsPlayed(plays, trump_suit) ==
    {plays[i][2].rank : i \in {j \in DOMAIN plays : plays[j][2].suit = trump_suit}}

\* trump_suit and 'King' in trump_cards_played and 'Queen' in trump_cards_played
Belote(plays, trump_suit) ==
    /\ trump_suit # "None"
    /\ "King" \in TrumpCardsPlayed(plays, trump_suit)
    /\ "Queen" \in TrumpCardsPlayed(plays, trump_suit)

\* team_card_points after lines 237-266: card points, belote, dix de der.
TeamCardPoints(tt, ltw, trump_suit) ==
    [t \in Teams |->
        LET plays == PlaysOfTricks(tt[t]) IN
        PointsFrom(plays, 1, trump_suit)
          + (IF Belote(plays, trump_suit) THEN 20 ELSE 0)
          + (IF ltw # NoPlayer /\ Team(ltw) = t THEN 10 ELSE 0)]

\* contract_made of lines 271-276.
ContractMade(c, contract_team_points) ==
    IF c.value = Capot THEN contract_team_points >= 162
    ELSE contract_team_points >= c.value

\* multiplier of lines 278-283.
RoundMultiplier(c) == IF c.redouble THEN 4 ELSE IF c.double THEN 2 ELSE 1

\* The scores with the failure points given without the multiplier.
FinalScoresPlain(c, points) ==
    [t \in Teams |->
        IF ContractMade(c, points[c.team])
        THEN IF t = c.team THEN GetBasePoints(c) + points[c.team] ELSE points[t]
        ELSE IF t = c.team THEN 0 ELSE 160 + GetBasePoints(c)]

\* team_scores of lines 285-313, from the contract and team_card_points.
FinalScores(c, points) ==
    LET contract_made == ContractMade(c, points[c.team])
        multiplier == RoundMultiplier(c)
        base_value == IF c.value = Capot THEN 250 ELSE c.value
    IN [t \in Teams |->
          IF contract_made
          THEN IF c.double \/ c.redouble
               THEN IF t = c.team THEN 160 + base_value * multiplier ELSE points[t]
               ELSE IF t = c.team THEN base_value + points[c.team] ELSE points[t]
          ELSE IF t = c.team THEN 0 ELSE (160 + base_value) * multiplier]

CalculateRoundScores(c, tt, ltw) ==
    IF c = None THEN [t \in Teams |-> 0]
    ELSE FinalScores(c, TeamCardPoints(tt, ltw, c.suit))

\* Round.calculate_round_scores on a round whose tricks have been played.
Score ==
    /\ pc = "completed"
    /\ round_scores' = CalculateRoundScores(contract, team_tricks, last_trick_winner)
    /\ pc' = "scored"
    /\ UNCHANGED <<gameVars, bidVars, error, contract, hands, current_trick, last_trick_winner,
                   tricks, trick_num, trick_pos, deck, team_tricks>>

(***************************************************************************)
(* The scoring of a round: the state of a Round whose eight tricks have    *)
(* been played and recorded by play_trick, then calculate_round_scores.    *)
(* The rounds of the model: tricks 1 and 2 are played in Spades, 3 and 4   *)
(* in Hearts, 5 and 6 in Diamonds, 7 and 8 in Clubs, each trick with the   *)
(* four ranks TrickRanks gives it; every player holds two cards of each    *)
(* suit, so every play follows suit.  Who holds which card of a trick is   *)
(* chosen per trick (Seatings), and the winner of a trick leads the next.  *)
(***************************************************************************)
TrickSuit(t) == SUITS[(t + 1) \div 2]
TrickRanks ==
    <<  <<"7", "8", "9", "Jack">>,      <<"Queen", "10", "King", "Ace">>,
        <<"7", "8", "Queen", "King">>,  <<"9", "Jack", "10", "Ace">>,
        <<"7", "9", "Queen", "10">>,    <<"8", "Jack", "King", "Ace">>,
        <<"7", "Queen", "8", "King">>,  <<"9", "10", "Jack", "Ace">>  >>
\* For each trick, the seat that holds the first of its ranks; the next seats
\* hold the next ranks.
Seatings == [1 .. NumTricks -> {0, 1}]
CardOfSeat(t, p, seating) ==
    Card(TrickSuit(t), TrickRanks[t][((p + NumPlayers - seating[t]) % NumPlayers) + 1])
\* The plays of trick t led by leader: trick_order of play_trick.
PlaysOfTrick(t, leader, seating) ==
    [i \in 1 .. NumPlayers |->
        LET p == (leader + i - 1) % NumPlayers IN <<p, CardOfSeat(t, p, seating)>>]

\* The round after tricks t .. NumTricks, from the round r before them: what
\* lines 181-189 of play_trick record for each trick.
RECURSIVE PlayedFrom(_, _, _, _)
PlayedFrom(t, r, seating, trump_suit) ==
    IF t > NumTricks THEN r
    ELSE LET leader == IF r.last_trick_winner = NoPlayer THEN 0 ELSE r.last_trick_winner
             plays == PlaysOfTrick(t, leader, seating)
             winner == DetermineTrickWinner(plays, trump_suit)
         IN PlayedFrom(t + 1,
                       [tricks |-> Append(r.tricks, plays),
                        team_tricks |-> [r.team_tricks EXCEPT ![Team(winner)] = Append(@, plays)],
                        last_trick_winner |-> winner],
                       seating, trump_suit)

PlayedRound(seating, trump_suit) ==
    PlayedFrom(1, [tricks |-> <<>>, team_tricks |-> NoTricks, last_trick_winner |-> NoPlayer],
               seating, trump_suit)

ScoreValues == {80, 120, Capot}
ScoreFlags == {<<FALSE, FALSE>>, <<TRUE, FALSE>>, <<TRUE, TRUE>>, <<FALSE, TRUE>>}
ScoreContracts ==
    {None} \cup
    {ContractInit(p, v, s, f[1], f[2]) :
        p \in {0, 1}, v \in ScoreValues, s \in Range(VALID_SUITS), f \in ScoreFlags}

InitScore ==
    /\ bid_objects = <<>>
    /\ passes_count = 0
    /\ turn = 0
    /\ bid_choice = NoChoice
    /\ has_double = FALSE
    /\ has_redouble = FALSE
    /\ pc = "completed"
    /\ error = "none"
    /\ hands = [p \in Players |-> <<>>]
    /\ \E trump_suit \in {TrumpSuitOf(c) : c \in ScoreContracts} :
          \E r \in {PlayedRound(seating, trump_suit) : seating \in Seatings} :
             /\ contract \in {c \in ScoreContracts : TrumpSuitOf(c) = trump_suit}
             /\ tricks = r.tricks
             /\ team_tricks = r.team_tricks
             /\ last_trick_winner = r.last_trick_winner
             /\ current_trick = r.tricks[NumTricks]
    /\ trick_num = 0
    /\ trick_pos = 0
    /\ deck = <<>>
    /\ round_scores = NoScores
    /\ NoGame

NextScore == Score

SpecScore == InitScore /\ [][NextScore]_vars

(***************************************************************************)
(* Claims on the scores of a round, checked under SpecScore once           *)
(* calculate_round_scores has run on a round with a contract.              *)
(***************************************************************************)
Scored == pc = "scored" /\ contract # None
ContractTeam == contract.team
DefendingTeam == CHOOSE t \in Teams : t # contract.team
\* The points of the teams as the round counts them: cards, belote, dix de der.
RoundPoints == TeamCardPoints(team_tricks, last_trick_winner, contract.suit)
RuleBase == IF contract.value = Capot THEN 250 ELSE contract.value
RuleMultiplier == IF contract.redouble THEN 4 ELSE IF contract.double THEN 2 ELSE 1
\* Made: 162 points for a Capot contract, the value for a numeric one.
RuleMade ==
    IF contract.value = Capot THEN RoundPoints[ContractTeam] >= 162
    ELSE RoundPoints[ContractTeam] >= contract.value

C14_FailedUndoubledGives162PlusValue ==
    (/\ Scored
     /\ contract.value # Capot
     /\ ~contract.double
     /\ ~contract.redouble
     /\ RoundPoints[ContractTeam] < contract.value) =>
        /\ round_scores[ContractTeam] = 0
        /\ round_scores[DefendingTeam] = 162 + contract.value

\* C15: when a doubled contract of numeric value V is made with P points of
\* the contracting team, that team scores (V + P) * 2 and the defending team
\* its own points.
C15_DoubledMadeGivesValuePlusPointsTwice ==
    (/\ Scored
     /\ contract.value # Capot
     /\ contract.double
     /\ ~contract.redouble
     /\ RoundPoints[ContractTeam] >= contract.value) =>
        /\ round_scores[ContractTeam] = (contract.value + RoundPoints[ContractTeam]) * 2
        /\ round_scores[DefendingTeam] = RoundPoints[DefendingTeam]

\* C16: Contract.is_made on the contracting team's points answers, and gives
\* the decision taken in calculate_round_scores: 162 points for a Capot
\* contract, the value for a numeric one.
C16_IsMadeAgreesWithRound ==
    Scored =>
        /\ IsMade(contract, RoundPoints[ContractTeam]).error = "none"
        /\ IsMade(contract, RoundPoints[ContractTeam]).result
              = ContractMade(contract, RoundPoints[ContractTeam])
        /\ ContractMade(contract, RoundPoints[ContractTeam]) = RuleMade

\* C17: under a Capot contract, whatever its suit, the round is scored as made
\* (the contracting team scores more than 0) iff the contracting team won all
\* eight tricks.
C17_CapotMadeIffAllTricks ==
    (Scored /\ contract.value = Capot) =>
        (round_scores[ContractTeam] > 0 <=> Len(team_tricks[ContractTeam]) = NumTricks)

\* The ranks of the trumps played by the players of a team during the round.
TrumpRanksPlayedBy(t) ==
    {tricks[i][j][2].rank : <<i, j>> \in
        {<<k, l>> \in (DOMAIN tricks) \X (1 .. NumPlayers) :
            /\ l \in DOMAIN tricks[k]
            /\ Team(tricks[k][l][1]) = t
            /\ tricks[k][l][2].suit = contract.suit}}
PlayedBelote(t) == {"King", "Queen"} \subseteq TrumpRanksPlayedBy(t)
\* The card points of the tricks a team has won, and its dix de der.
PointsWithoutBelote(t) ==
    PointsFrom(PlaysOfTricks(team_tricks[t]), 1, contract.suit)
      + (IF last_trick_winner # NoPlayer /\ Team(last_trick_winner) = t THEN 10 ELSE 0)

\* C18: 20 points of belote are added to a team's points iff players of that
\* team played both the King and the Queen of the trump suit, whichever team
\* won the tricks where they fell.
C18_BeloteToTheTeamThatPlayedIt ==
    Scored =>
        \A t \in Teams :
            RoundPoints[t] = PointsWithoutBelote(t) + (IF PlayedBelote(t) THEN 20 ELSE 0)

\* C19: at the end of a round with a contract, of any allowed suit, the card
\* points of the two teams under the contract's trump suit and the 10 points
\* of the last trick, belote left out, sum to 162.
C19_PointsSumTo162 ==
    Scored => PointsWithoutBelote(ContractTeam) + PointsWithoutBelote(DefendingTeam) = 162

(***************************************************************************)
(* The deck: Deck.shuffle, Deck.cut and Deck.deal (deck.py), on the round's *)
(* deck and the four players' hands.  random.shuffle can give any order of  *)
(* the cards; ShuffledDecks holds three of them.  Deal is the call with the *)
(* four players of a round, DealWrongCount the call with another number.    *)
(***************************************************************************)
DeckSize == 32

Reversed(cards) == [i \in 1 .. Len(cards) |-> cards[Len(cards) + 1 - i]]
Riffled(cards) ==
    [i \in 1 .. Len(cards) |->
        IF i <= Len(cards) \div 2 THEN cards[2 * i] ELSE cards[2 * (i - Len(cards) \div 2) - 1]]
ShuffledDecks == {DeckInit, Reversed(DeckInit), Riffled(DeckInit)}

\* Python's cards[a:b] for 0 <= a <= b.
Slice(cards, a, b) ==
    SubSeq(cards, a + 1, IF b < Len(cards) THEN b ELSE Len(cards))

\* The first round dealt three cards again in the third round.
ThirdRoundAsFirst(cards, i) == Slice(cards, i * 3, (i * 3) + 3)

FirstRound(cards, i) == Slice(cards, i * 3, (i * 3) + 3)
SecondRound(cards, i) == Slice(cards, (i * 2) + 12, (i * 2) + 14)
ThirdRound(cards, i) == Slice(cards, (i * 3) + 20, (i * 3) + 23)

\* Deck.shuffle()
Shuffle ==
    /\ pc = "dealing"
    /\ deck # <<>>
    /\ deck' \in ShuffledDecks
    /\ UNCHANGED <<gameVars, bidVars, contract, hands, current_trick, last_trick_winner, tricks,
                   trick_num, trick_pos, team_tricks, round_scores, pc, error>>

\* The cut that keeps only the cards from cut_index on.
CutCardsLosing(cards, cut_index) == Slice(cards, cut_index, Len(cards))

\* self.cards[cut_index:] + self.cards[:cut_index]
CutCards(cards, cut_index) ==
    Slice(cards, cut_index, Len(cards)) \o Slice(cards, 0, cut_index)

\* Deck.cut() with random.randint(3, len(self.cards) - 4) = cut_index
Cut(cut_index) ==
    /\ pc = "dealing"
    /\ IF Len(deck) < 8
       THEN deck' = deck
       ELSE /\ cut_index \in 3 .. Len(deck) - 4
            /\ deck' = CutCards(deck, cut_index)
    /\ UNCHANGED <<gameVars, bidVars, contract, hands, current_trick, last_trick_winner, tricks,
                   trick_num, trick_pos, team_tricks, round_scores, pc, error>>

\* Deck.deal(players) for the four players of the round.
Deal ==
    /\ pc \in {"dealing", "dealt"}
    /\ IF Len(deck) < DeckSize
       THEN /\ error' = "ValueError"
            /\ pc' = "raised"
            /\ UNCHANGED <<hands, deck>>
       ELSE /\ hands' = [p \in Players |->
                            hands[p] \o FirstRound(deck, p) \o SecondRound(deck, p)
                                     \o ThirdRound(deck, p)]
            /\ deck' = <<>>
            /\ pc' = "dealt"
            /\ UNCHANGED error
    /\ UNCHANGED <<gameVars, bidVars, contract, current_trick, last_trick_winner, tricks,
                   trick_num, trick_pos, team_tricks, round_scores>>

\* The numbers of players Deck.deal is called with.
PlayerCounts == 3 .. 5

\* Deck.deal(players) with len(players) = count, not four: lines 55-56.
DealWrongCount(count) ==
    /\ pc \in {"dealing", "dealt"}
    /\ count # NumPlayers
    /\ error' = "ValueError"
    /\ pc' = "raised"
    /\ UNCHANGED <<gameVars, bidVars, contract, hands, deck, current_trick, last_trick_winner,
                   tricks, trick_num, trick_pos, team_tricks, round_scores>>

InitDeal ==
    /\ bid_objects = <<>>
    /\ passes_count = 0
    /\ turn = 0
    /\ bid_choice = NoChoice
    /\ has_double = FALSE
    /\ has_redouble = FALSE
    /\ pc = "dealing"
    /\ error = "none"
    /\ contract = None
    /\ hands = [p \in Players |-> <<>>]
    /\ current_trick = <<>>
    /\ last_trick_winner = NoPlayer
    /\ tricks = <<>>
    /\ trick_num = 0
    /\ trick_pos = 0
    /\ deck = DeckInit
    /\ team_tricks = NoTricks
    /\ round_scores = NoScores
    /\ NoGame

NextDeal ==
    \/ Shuffle
    \/ \E cut_index \in 3 .. DeckSize - 4 : Cut(cut_index)
    \/ Deal
    \/ \E count \in PlayerCounts : DealWrongCount(count)

SpecDeal == InitDeal /\ [][NextDeal]_vars

\* The places of the deck, counted from 0, that go to player i, in order.
DealPlaces(i) ==
    << 3 * i, 3 * i + 1, 3 * i + 2,
       12 + 2 * i, 13 + 2 * i,
       20 + 3 * i, 21 + 3 * i, 22 + 3 * i >>
EmptyHands == \A p \in Players : hands[p] = <<>>

\* C20: Deck.deal on a deck of 32 cards and four players with empty hands gives
\* player i the cards at places 3i..3i+2, then 12+2i..13+2i, then 20+3i..22+3i
\* of the deck, in that order: eight cards each, no card in two hands, the 32
\* cards of the deck in all, and the deck is empty afterwards.
C20_DealThreeTwoThree ==
    [][(Deal /\ Len(deck) = DeckSize /\ EmptyHands) =>
          /\ \A i \in Players :
                hands'[i] = [k \in 1 .. 8 |-> deck[DealPlaces(i)[k] + 1]]
          /\ \A i \in Players : Len(hands'[i]) = 8
          /\ \A i, j \in Players : i # j => Range(hands'[i]) \cap Range(hands'[j]) = {}
          /\ UNION {Range(hands'[i]) : i \in Players} = Range(deck)
          /\ Cardinality(Range(deck)) = DeckSize
          /\ deck' = <<>>]_vars

\* The new deck has been dealt: the first player holds 7, 8, 9 of Spades,
\* Queen and King of Hearts, then Queen, King and 10 of Diamonds.
C20_Witness ==
    /\ pc = "dealt"
    /\ deck = <<>>
    /\ hands[0] = << Card("Spades", "7"), Card("Spades", "8"), Card("Spades", "9"),
                     Card("Hearts", "Queen"), Card("Hearts", "King"),
                     Card("Diamonds", "Queen"), Card("Diamonds", "King"),
                     Card("Diamonds", "10") >>
    /\ \A p \in Players : Len(hands[p]) = 8

(***************************************************************************)
(* Claims on the cards of a round, checked under SpecPlay, where the cards *)
(* of the game are those of PoolCards, all dealt to the four hands.        *)
(***************************************************************************)
CardsInHands == UNION {Range(hands[p]) : p \in Players}
RECURSIVE SumOfLens(_, _)
SumOfLens(f, S) ==
    IF S = {} THEN 0
    ELSE LET x == CHOOSE y \in S : TRUE IN Len(f[x]) + SumOfLens(f, S \ {x})

\* C21: in every state reached by dealing, playing cards and completing
\* tricks, the cards of the deck together with the cards of the four hands are
\* exactly the cards of the game, none missing and none twice.
C21_DeckAndHandsHoldEveryCard ==
    /\ Range(deck) \cup CardsInHands = Range(PoolCards)
    /\ Len(deck) + SumOfLens(hands, Players) = Len(PoolCards)

(***************************************************************************)
(* Deck.cut on decks of every size up to MaxCutLen and on the full deck:   *)
(* the first cards of the shuffled decks.                                  *)
(***************************************************************************)
CutDecks ==
    {Slice(d, 0, n) : d \in ShuffledDecks, n \in (0 .. MaxCutLen) \cup {DeckSize}}

InitCut ==
    /\ bid_objects = <<>>
    /\ passes_count = 0
    /\ turn = 0
    /\ bid_choice = NoChoice
    /\ has_double = FALSE
    /\ has_redouble = FALSE
    /\ pc = "dealing"
    /\ error = "none"
    /\ contract = None
    /\ hands = [p \in Players |-> <<>>]
    /\ current_trick = <<>>
    /\ last_trick_winner = NoPlayer
    /\ tricks = <<>>
    /\ trick_num = 0
    /\ trick_pos = 0
    /\ deck \in CutDecks
    /\ team_tricks = NoTricks
    /\ round_scores = NoScores
    /\ NoGame

NextCut == \E cut_index \in 3 .. DeckSize - 4 : Cut(cut_index)

SpecCut == InitCut /\ [][NextCut]_vars

(***************************************************************************)
(* Claims on the deck, checked under SpecDeal and SpecCut.                 *)
(***************************************************************************)
\* C22: Deck.deal fails with an InvalidPlayerCount error when it is not given
\* four players and with an InvalidCardCount error when the deck does not hold
\* 32 cards: two kinds of error, neither of them a generic one.
C22_DealErrorKinds ==
    [][/\ \A count \in PlayerCounts :
             DealWrongCount(count) => error' = "InvalidPlayerCountError"
       /\ (Deal /\ Len(deck) # DeckSize) => error' = "InvalidCardCountError"]_vars

\* The cards of a deck of n cards taken in a circle from place k (from 0).
Rotated(cards, k) ==
    [i \in 1 .. Len(cards) |-> cards[((i - 1 + k) % Len(cards)) + 1]]

\* C23: Deck.cut leaves a deck of fewer than 8 cards as it is; a deck of n >= 8
\* cards becomes cards[k:] + cards[:k] for a k with 3 <= k <= n - 4: the same
\* cards, none lost and none twice, as many as before, in another order.
C23_CutIsARotation ==
    [][\A cut_index \in 3 .. DeckSize - 4 :
          Cut(cut_index) =>
             IF Len(deck) < 8 THEN deck' = deck
             ELSE /\ \E k \in 3 .. Len(deck) - 4 : deck' = Rotated(deck, k)
                  /\ Len(deck') = Len(deck)
                  /\ Range(deck') = Range(deck)
                  /\ Cardinality(Range(deck')) = Len(deck')
                  /\ deck' # deck]_vars

\* The first eight cards of the new deck cut at 3: Jack of Spades on top.
C23_Witness ==
    /\ Len(deck) = 8
    /\ deck = Rotated(Slice(DeckInit, 0, 8), 3)
    /\ deck[1] = Card("Spades", "Jack")
    /\ deck # Slice(DeckInit, 0, 8)

\* C24: after each trick the four cards of the trick are appended to the deck,
\* the last card played first and the card led last: the deck holds 4k cards
\* after k tricks of a round.  Checked under SpecPlay.
C24_TrickCardsReturnReversed ==
    /\ Len(deck) = 4 * Len(tricks)
    /\ \A k \in DOMAIN tricks :
          \A j \in 1 .. NumPlayers :
             deck[NumPlayers * (k - 1) + j] = tricks[k][NumPlayers + 1 - j][2]

(***************************************************************************)
(* Game (game.py).  A player of a Game is its index in Game.players, the   *)
(* players sorted North, West, South, East; hands[p] is the hand of that   *)
(* player.  A player given to Game.__init__ counts by its position only.   *)
(* An exception ends the run of the model.                                 *)
(***************************************************************************)
POSITION_ORDER == <<"North", "West", "South", "East">>
REQUIRED_POSITIONS == {"North", "West", "South", "East"}

\* The lists of players Game is created with: three to five players, each at
\* one of the four positions.
PlayerLists == UNION {[1 .. n -> REQUIRED_POSITIONS] : n \in PlayerCounts}

\* sorted(players, key=lambda p: position_order.index(p.position)), from the
\* k-th position on.  The sort is stable.
RECURSIVE SortedFrom(_, _)
SortedFrom(player_list, k) ==
    IF k > Len(POSITION_ORDER) THEN <<>>
    ELSE LET AtPosition(position) == position = POSITION_ORDER[k]
         IN SelectSeq(player_list, AtPosition) \o SortedFrom(player_list, k + 1)

\* Team(name, players)
TeamInit(name, team_players) == [name |-> name, players |-> team_players]
\* Game.teams, teams[t + 1] being team t of Teams.
TeamsInit ==
    << TeamInit("North-South", <<"North", "South">>),
       TeamInit("East-West", <<"East", "West">>) >>

\* Game.__init__(players)
GameInit(player_list) ==
    /\ pc = "start"
    /\ IF Len(player_list) # NumPlayers
       THEN /\ error' = "InvalidPlayerCountError"
            /\ pc' = "raised"
            /\ UNCHANGED <<gameVars, deck>>
       ELSE IF Range(player_list) # REQUIRED_POSITIONS
       THEN /\ error' = "ValueError"
            /\ pc' = "raised"
            /\ UNCHANGED <<gameVars, deck>>
       ELSE /\ players' = SortedFrom(player_list, 1)
            /\ teams' = TeamsInit
            /\ deck' = DeckInit
            /\ dealer' = NoPlayer
            /\ players_order' = <<>>
            /\ round_number' = 0
            /\ scores' = [t \in Teams |-> 0]
            /\ pc' = "ready"
            /\ UNCHANGED <<error, game_result>>
    /\ UNCHANGED <<bidVars, contract, hands, current_trick, last_trick_winner, tricks,
                   trick_num, trick_pos, team_tricks, round_scores>>

\* The dealer that follows the dealer at index idx, turning the other way.
NextDealerIndexClockwise(idx) == (idx + NumPlayers - 1) % NumPlayers

\* self.players[(idx + 1) % 4]
NextDealerIndex(idx) == (idx + 1) % NumPlayers

\* Game.next_dealer(), random.choice(self.players) giving the player chosen.
DealerAfter(d, chosen) == IF d = NoPlayer THEN chosen ELSE NextDealerIndex(d)

\* The order that starts with the dealer.
OrderFromDealer(d) == [i \in 1 .. NumPlayers |-> (d + (i - 1)) % NumPlayers]

\* players_order of Game.set_players_order: (dealer_idx + 1 + i) % 4 for i in range(4)
OrderAfter(d) == [i \in 1 .. NumPlayers |-> (d + 1 + (i - 1)) % NumPlayers]

\* Game.next_dealer()
NextDealer(chosen) ==
    /\ pc = "ready"
    /\ dealer' = DealerAfter(dealer, chosen)
    /\ UNCHANGED <<players, teams, players_order, round_number, scores, game_result>>
    /\ UNCHANGED <<bidVars, pc, error, contract, hands, deck, current_trick,
                   last_trick_winner, tricks, trick_num, trick_pos, team_tricks,
                   round_scores>>

\* Game.set_players_order()
SetPlayersOrder ==
    /\ pc = "ready"
    /\ IF dealer = NoPlayer
       THEN /\ error' = "ValueError"
            /\ pc' = "raised"
            /\ UNCHANGED players_order
       ELSE /\ players_order' = OrderAfter(dealer)
            /\ UNCHANGED <<error, pc>>
    /\ UNCHANGED <<players, teams, dealer, round_number, scores, game_result>>
    /\ UNCHANGED <<bidVars, contract, hands, deck, current_trick, last_trick_winner,
                   tricks, trick_num, trick_pos, team_tricks, round_scores>>

\* The place, from 0, of player p in an order of the four players.
PlaceIn(order, p) == (CHOOSE i \in DOMAIN order : order[i] = p) - 1

\* The deck shuffled before every round.
DeckForRoundShuffled(number, cards, shuffled, cut_index) == shuffled

\* The deck start_new_round deals from: self.deck.shuffle() on the first
\* round, self.deck.cut() on the others.
DeckForRound(number, cards, shuffled, cut_index) ==
    IF number = 0 THEN shuffled
    ELSE IF Len(cards) < 8 THEN cards
    ELSE CutCards(cards, cut_index)

\* Game.start_new_round(): the game after it and the exception it raises.
\* chosen is the player of random.choice, shuffled the deck random.shuffle
\* leaves, cut_index the number of random.randint.
StartedRound(chosen, shuffled, cut_index) ==
    LET new_dealer == DealerAfter(dealer, chosen)
        new_deck == DeckForRound(round_number, deck, shuffled, cut_index)
        new_order == OrderAfter(new_dealer)
    IN IF Len(new_deck) < DeckSize
       THEN [dealer |-> new_dealer, deck |-> new_deck, players_order |-> new_order,
             hands |-> hands, round_number |-> round_number, error |-> "ValueError"]
       ELSE [dealer |-> new_dealer, deck |-> <<>>, players_order |-> new_order,
             hands |-> [p \in Players |->
                          LET i == PlaceIn(new_order, p)
                          IN hands[p] \o FirstRound(new_deck, i) \o SecondRound(new_deck, i)
                                      \o ThirdRound(new_deck, i)],
             round_number |-> round_number + 1, error |-> "none"]

\* The inputs of start_new_round that the state reads: one value stands for
\* each input it does not read.
RoundInputs ==
    {<<chosen, shuffled, cut_index>> \in
        Players \X ShuffledDecks \X (3 .. DeckSize - 4) :
            /\ dealer # NoPlayer => chosen = 0
            /\ round_number # 0 => shuffled = DeckInit
            /\ (round_number = 0 \/ Len(deck) < 8) => cut_index = 3
            /\ round_number = 0 => shuffled \in {p \in ShuffledDecks : Range(p) = Range(deck)}}

\* Game.start_new_round()
StartNewRound(chosen, shuffled, cut_index) ==
    /\ pc = "ready"
    /\ <<chosen, shuffled, cut_index>> \in RoundInputs
    /\ LET r == StartedRound(chosen, shuffled, cut_index)
       IN /\ dealer' = r.dealer
          /\ deck' = r.deck
          /\ players_order' = r.players_order
          /\ hands' = r.hands
          /\ round_number' = r.round_number
          /\ error' = r.error
          /\ pc' = IF r.error = "none" THEN "ready" ELSE "raised"
    /\ current_trick' = <<>>
    /\ contract' = None
    /\ trick_num' = 0
    /\ UNCHANGED <<players, teams, scores, game_result>>
    /\ UNCHANGED <<bidVars, last_trick_winner, tricks, trick_pos, team_tricks, round_scores>>

\* Game.manage_round() when the four players pass: start_new_round, manage_bid
\* returns None, then lines 313-323.
ManageRoundAllPass(chosen, shuffled, cut_index) ==
    /\ pc = "ready"
    /\ <<chosen, shuffled, cut_index>> \in RoundInputs
    /\ LET r == StartedRound(chosen, shuffled, cut_index)
       IN /\ dealer' = r.dealer
          /\ deck' = r.deck
          /\ players_order' = r.players_order
          /\ hands' = r.hands
          /\ round_number' = r.round_number
          /\ IF r.error # "none"
             THEN error' = r.error
             ELSE /\ "add_cards" \notin DeckMethods
                  /\ error' = "AttributeError"
    /\ pc' = "raised"
    /\ current_trick' = <<>>
    /\ contract' = None
    /\ trick_num' = 0
    /\ UNCHANGED <<players, teams, scores, game_result>>
    /\ UNCHANGED <<bidVars, last_trick_winner, tricks, trick_pos, team_tricks, round_scores>>

\* No Game yet: the players come with empty hands.
InitGame ==
    /\ bid_objects = <<>>
    /\ passes_count = 0
    /\ turn = 0
    /\ bid_choice = NoChoice
    /\ has_double = FALSE
    /\ has_redouble = FALSE
    /\ pc = "start"
    /\ error = "none"
    /\ contract = None
    /\ hands = [p \in Players |-> <<>>]
    /\ current_trick = <<>>
    /\ last_trick_winner = NoPlayer
    /\ tricks = <<>>
    /\ trick_num = 0
    /\ trick_pos = 0
    /\ deck = <<>>
    /\ team_tricks = NoTricks
    /\ round_scores = NoScores
    /\ NoGame

NextGame ==
    \/ \E player_list \in PlayerLists : GameInit(player_list)
    \/ \E chosen \in Players : NextDealer(chosen)
    \/ SetPlayersOrder
    \/ \E chosen \in Players, shuffled \in ShuffledDecks, cut_index \in 3 .. DeckSize - 4 :
          StartNewRound(chosen, shuffled, cut_index)
    \/ \E chosen \in Players, shuffled \in ShuffledDecks, cut_index \in 3 .. DeckSize - 4 :
          ManageRoundAllPass(chosen, shuffled, cut_index)

SpecGame == InitGame /\ [][NextGame]_vars

(***************************************************************************)
(* Claims on the game, checked under SpecGame.                             *)
(***************************************************************************)
PositionOf(p) == players[p + 1]
\* The seat that follows a seat, anticlockwise.
AnticlockwiseAfter ==
    [position \in REQUIRED_POSITIONS |->
        CASE position = "North" -> "West"
          [] position = "West" -> "South"
          [] position = "South" -> "East"
          [] position = "East" -> "North"]
\* The name of the team of Game.teams that holds the player at a position.
TeamNameOf(position) ==
    LET t == CHOOSE i \in DOMAIN teams : position \in Range(teams[i].players)
    IN teams[t].name

\* C25: when the four players pass, the round returns without an error, no
\* trick is played, every team scores 0 for the round, the cumulative scores
\* stay as they were, every hand is empty and the 32 cards are in the deck.
C25_AllPassReturnsTheCards ==
    [][\A chosen \in Players, shuffled \in ShuffledDecks, cut_index \in 3 .. DeckSize - 4 :
          ManageRoundAllPass(chosen, shuffled, cut_index) =>
             /\ error' = "none"
             /\ tricks' = <<>>
             /\ game_result' # NoResult
             /\ game_result'.scores = [t \in Teams |-> 0]
             /\ scores' = scores
             /\ \A p \in Players : hands'[p] = <<>>
             /\ Len(deck') = DeckSize
             /\ Range(deck') = Range(DeckInit)]_vars

\* C27: Game.next_dealer with a dealer set moves the dealer to the next seat
\* in the order North, West, South, East, North, so that four rounds in a row
\* have four different dealers; with no dealer set it picks one of the four
\* players of the game.
C27_DealerTurnsAnticlockwise ==
    [][((\E chosen \in Players : NextDealer(chosen)) \/ dealer' # dealer) =>
          /\ dealer' \in Players
          /\ dealer # NoPlayer =>
                /\ PositionOf(dealer') = AnticlockwiseAfter[PositionOf(dealer)]
                /\ ~(PositionOf(dealer) = "North" /\ PositionOf(dealer') = "East")
                /\ { dealer',
                     NextDealerIndex(dealer'),
                     NextDealerIndex(NextDealerIndex(dealer')),
                     NextDealerIndex(NextDealerIndex(NextDealerIndex(dealer'))) } = Players
                /\ NextDealerIndex(NextDealerIndex(NextDealerIndex(dealer'))) = dealer]_vars

\* The order of play was set while North dealt and the deal has since passed
\* to West.
C27_Witness ==
    /\ pc = "ready"
    /\ players_order # <<>>
    /\ PositionOf(players_order[NumPlayers]) = "North"
    /\ dealer # NoPlayer
    /\ PositionOf(dealer) = "West"

\* C28: after Game.set_players_order, players_order is the seating North,
\* West, South, East turned so that it starts with the player after the dealer
\* and ends with the dealer: each of the four players once, the dealer last,
\* partners two seats apart and the two teams in turn.
C28_OrderStartsAfterDealer ==
    [][((SetPlayersOrder /\ dealer # NoPlayer) \/ players_order' # players_order) =>
             /\ Len(players_order') = NumPlayers
             /\ \A p \in Players :
                   Cardinality({i \in DOMAIN players_order' : players_order'[i] = p}) = 1
             /\ players_order'[NumPlayers] = dealer'
             /\ PositionOf(players_order'[1]) = AnticlockwiseAfter[PositionOf(dealer')]
             /\ \A i \in 1 .. NumPlayers - 1 :
                   PositionOf(players_order'[i + 1])
                      = AnticlockwiseAfter[PositionOf(players_order'[i])]
             /\ \A i \in 1 .. NumPlayers - 2 :
                   TeamNameOf(PositionOf(players_order'[i]))
                      = TeamNameOf(PositionOf(players_order'[i + 2]))
             /\ \A i \in 1 .. NumPlayers - 1 :
                   TeamNameOf(PositionOf(players_order'[i]))
                      # TeamNameOf(PositionOf(players_order'[i + 1]))]_vars

\* South deals: the order of play is East, North, West, South.
C28_Witness ==
    /\ pc = "ready"
    /\ dealer # NoPlayer
    /\ PositionOf(dealer) = "South"
    /\ players_order # <<>>
    /\ [i \in 1 .. NumPlayers |-> PositionOf(players_order[i])]
          = <<"East", "North", "West", "South">>

\* How many players of a list are at a position.
CountAt(player_list, position) ==
    Cardinality({i \in DOMAIN player_list : player_list[i] = position})

\* C30: creating a Game fails with an InvalidPlayerCount error when it is not
\* given four players, whatever their positions, and with an InvalidPosition
\* error, another kind, when the four players are not one at each of North,
\* East, South and West; no game is made then, and otherwise the teams are
\* North with South and East with West.
C30_GameCreationErrors ==
    [][\A player_list \in PlayerLists :
          GameInit(player_list) =>
             IF Len(player_list) # 4
             THEN /\ error' = "InvalidPlayerCountError"
                  /\ pc' = "raised"
                  /\ teams' = <<>>
             ELSE IF \E position \in {"North", "East", "South", "West"} :
                        CountAt(player_list, position) # 1
             THEN /\ error' = "InvalidPositionError"
                  /\ pc' = "raised"
                  /\ teams' = <<>>
             ELSE /\ error' = "none"
                  /\ pc' = "ready"
                  /\ {Range(teams'[i].players) : i \in DOMAIN teams'}
                        = {{"North", "South"}, {"East", "West"}}]_vars

(***************************************************************************)
(* Game.check_game_over on a game whose cumulative scores are drawn from   *)
(* ScoreSamples, for the targets of Targets.                               *)
(***************************************************************************)
ScoreSamples == {0, 490, 500, 990, 1000, 1500, 1510}
Targets == {500, 1000, 1500}

\* max(self.scores.values())
MaxScore(sc) == CHOOSE m \in {sc[t] : t \in DOMAIN sc} : \A t \in DOMAIN sc : sc[t] <= m

\* [team.name for team in self.teams if self.scores[team.name] == max_score]
RECURSIVE WinningTeamsFrom(_, _, _)
WinningTeamsFrom(tms, sc, i) ==
    IF i > Len(tms) THEN <<>>
    ELSE (IF sc[i - 1] = MaxScore(sc) THEN <<tms[i].name>> ELSE <<>>)
            \o WinningTeamsFrom(tms, sc, i + 1)

\* The result that names the first team at the maximum as winner, tie or not.
GameOverResultFirstWins(tms, sc, target_score) ==
    IF MaxScore(sc) >= target_score
    THEN [kind |-> "dict", game_over |-> TRUE,
          winner |-> <<WinningTeamsFrom(tms, sc, 1)[1]>>,
          tied_teams |-> <<>>,
          final_scores |-> <<sc>>]
    ELSE [kind |-> "dict", game_over |-> FALSE, winner |-> <<>>, tied_teams |-> <<>>,
          final_scores |-> <<>>]

\* The dict returned by check_game_over.  A field that is None is the empty
\* sequence, a field that is set is the sequence of its one value.
GameOverResult(tms, sc, target_score) ==
    IF MaxScore(sc) >= target_score
    THEN LET winning_teams == WinningTeamsFrom(tms, sc, 1)
         IN [kind |-> "dict", game_over |-> TRUE,
             winner |-> IF Len(winning_teams) = 1 THEN <<winning_teams[1]>> ELSE <<>>,
             tied_teams |-> IF Len(winning_teams) > 1 THEN <<winning_teams>> ELSE <<>>,
             final_scores |-> <<sc>>]
    ELSE [kind |-> "dict", game_over |-> FALSE, winner |-> <<>>, tied_teams |-> <<>>,
          final_scores |-> <<>>]

\* Game.check_game_over(target_score)
CheckGameOver(target_score) ==
    /\ pc = "ready"
    /\ game_result' = GameOverResult(teams, scores, target_score)
    /\ UNCHANGED <<players, teams, dealer, players_order, round_number, scores>>
    /\ UNCHANGED <<bidVars, pc, error, contract, hands, deck, current_trick,
                   last_trick_winner, tricks, trick_num, trick_pos, team_tricks,
                   round_scores>>

InitOver ==
    /\ bid_objects = <<>>
    /\ passes_count = 0
    /\ turn = 0
    /\ bid_choice = NoChoice
    /\ has_double = FALSE
    /\ has_redouble = FALSE
    /\ pc = "ready"
    /\ error = "none"
    /\ contract = None
    /\ hands = [p \in Players |-> <<>>]
    /\ current_trick = <<>>
    /\ last_trick_winner = NoPlayer
    /\ tricks = <<>>
    /\ trick_num = 0
    /\ trick_pos = 0
    /\ deck = DeckInit
    /\ team_tricks = NoTricks
    /\ round_scores = NoScores
    /\ players = POSITION_ORDER
    /\ teams = TeamsInit
    /\ dealer = NoPlayer
    /\ players_order = <<>>
    /\ round_number = 0
    /\ scores \in [Teams -> ScoreSamples]
    /\ game_result = NoResult

NextOver == \E target_score \in Targets : CheckGameOver(target_score)

SpecOver == InitOver /\ [][NextOver]_vars

\* The names of the teams whose cumulative score is the highest.
Leaders == {teams[t + 1].name : t \in {u \in Teams : \A v \in Teams : scores[v] <= scores[u]}}

\* C29: check_game_over(target) reports game_over iff a team's cumulative score
\* is at least target.  Then it reports the one team with the highest score as
\* winner, or no winner and the teams that share the highest score, and the
\* final scores; otherwise winner, tied teams and final scores are all absent.
C29_GameOverReport ==
    [][\A target_score \in Targets :
          CheckGameOver(target_score) =>
             /\ game_result'.game_over <=> (\E t \in Teams : scores[t] >= target_score)
             /\ game_result'.game_over =>
                   /\ game_result'.final_scores = <<scores>>
                   /\ IF Cardinality(Leaders) = 1
                      THEN /\ game_result'.winner # <<>>
                           /\ game_result'.winner[1] \in Leaders
                           /\ game_result'.tied_teams = <<>>
                      ELSE /\ game_result'.winner = <<>>
                           /\ game_result'.tied_teams # <<>>
                           /\ Range(game_result'.tied_teams[1]) = Leaders
             /\ ~game_result'.game_over =>
                   /\ game_result'.winner = <<>>
                   /\ game_result'.tied_teams = <<>>
                   /\ game_result'.final_scores = <<>>]_vars

\* Both teams at 1500: the game is over with no winner and the two teams tied.
C29_Witness ==
    /\ game_result # NoResult
    /\ game_result.game_over
    /\ scores = [t \in Teams |-> 1500]
    /\ game_result.winner = <<>>
    /\ game_result.tied_teams = << <<"North-South", "East-West">> >>
    /\ game_result.final_scores = <<scores>>


\* C26: the first trick of a round is led by the first player of players_order
\* and every later trick by the winner of the trick before it; within a trick
\* the four players act exactly once each, in the cyclic order of players_order
\* from the leader.  On the state of play_all_tricks: the plays of the trick in
\* progress are those of the places already visited, in order; a recorded trick
\* holds one play of each player, from its leader round the table; the first
\* trick has leader players_order[0]; a later trick starts from a trick that
\* had a winner, and after a recorded trick that is not the last the round
\* plays on, led by that winner.
C26_TricksLedInTurn ==
    /\ pc = "playing" =>
          /\ Len(current_trick) = trick_pos
          /\ \A i \in DOMAIN current_trick : current_trick[i][1] = TrickOrder(i - 1)
    /\ \A k \in DOMAIN tricks :
          /\ Len(tricks[k]) = NumPlayers
          /\ \A i \in 1 .. NumPlayers :
                tricks[k][i][1] = (tricks[k][1][1] + (i - 1)) % NumPlayers
    /\ (trick_num = 0 /\ tricks = <<>>) => TrickLeader = 0
    /\ (pc = "playing" /\ trick_num > 0) => last_trick_winner \in Players
    /\ (tricks # <<>> /\ Len(tricks) < NumTricks) =>
          /\ pc = "playing"
          /\ TrickLeader = last_trick_winner


\* The tricks play_trick has finished: those play_all_tricks has counted and
\* the one whose return of cards raised.
TricksDone == trick_num + (IF pc = "raised" THEN 1 ELSE 0)

\* C31: after every trick played from four non-empty hands, whatever the card
\* providers return, the trick holds exactly four plays, one by each of the
\* four players, and each hand has one card fewer than before the trick; the
\* tricks of a round are all played and recorded complete, and the hands end
\* empty.  Between two tricks: as many tricks are recorded as were played, each
\* with one play of each player, every hand has lost one card per trick, and
\* play_all_tricks has not been left by an exception.
C31_EveryTrickTakesOneCardEach ==
    (trick_pos = 0 \/ pc = "raised") /\ TricksDone <= HandSize =>
        /\ Len(tricks) = TricksDone
        /\ \A k \in DOMAIN tricks :
              /\ Len(tricks[k]) = NumPlayers
              /\ {tricks[k][i][1] : i \in DOMAIN tricks[k]} = Players
        /\ \A p \in Players : Len(hands[p]) = HandSize - TricksDone
        /\ pc # "raised"


\* C32: in manage_bidding the i-th bid of the history (counting from 0) is
\* authored by players_order[i mod 4]: bidding starts with the first player of
\* players_order, the fourth place bids fourth, and until bidding ends the next
\* player asked is the one after the author of the last bid, so that nobody is
\* skipped and nobody is asked twice in a row.
C32_BidsGoRoundTheTable ==
    /\ \A i \in DOMAIN bid_objects : bid_objects[i].player = (i - 1) % NumPlayers
    /\ ~Ended => turn = Len(bid_objects) % NumPlayers

\* The table has been gone round once and the first player has bid again,
\* over the contract of the third player; bidding goes on.
C32_Witness ==
    /\ pc = "bidding"
    /\ Len(bid_objects) = 5
    /\ bid_objects[3].kind = "Contract"
    /\ bid_objects[4].kind = "Pass"
    /\ bid_objects[5].kind = "Contract"
    /\ bid_objects[5].player = 0
    /\ turn = 1


(***************************************************************************)
(* Trick of trick.py, as play_trick makes it.                              *)
(***************************************************************************)
\* Trick.__init__(trump_suit=None)
TrickInit(trump_suit) == [plays |-> <<>>, trump_suit |-> trump_suit]

\* self.current_trick = Trick() of play_trick: no trump suit is handed over.
NewTrick == TrickInit("None")

\* The current trick as a Trick object: the plays added since its creation,
\* the trump suit of its creation.
CurrentTrick == [NewTrick EXCEPT !.plays = current_trick]

\* Trick.get_winner(): the loop of _determine_trick_winner on self.plays with
\* self.trump_suit.
GetWinner(trick) ==
    IF trick.plays = <<>> THEN NoPlayer
    ELSE BestPlayFrom(trick.plays, 2, trick.trump_suit, trick.plays[1])[1]

\* C33: every Trick created by play_trick carries, from its creation, the
\* trump suit of the round's contract, so that Trick.get_winner returns the
\* winner the round records for that trick.  On the trick play_trick has just
\* recorded.
C33_TrickKnowsTheTrump ==
    (pc = "raised" /\ tricks # <<>>) =>
        /\ CurrentTrick.trump_suit = TrumpSuitOf(contract)
        /\ GetWinner(CurrentTrick) = last_trick_winner


(***************************************************************************)
(* Game.start_new_round on a game between two rounds, as its caller has it *)
(* once the cards are back in the deck: any round number, a dealer from    *)
(* the second round on, the 32 cards in the deck in one of the orders of   *)
(* ShuffledDecks, empty hands, and what the last round left as contract,   *)
(* trick and trick counter.                                                *)
(***************************************************************************)
RoundNumbers == 0 .. 2
LeftContracts == {None, ContractInit(0, 80, "Hearts", FALSE, FALSE)}
LeftTricks == {<<>>, <<<<0, Card("Spades", "7")>>>>}

InitRound ==
    /\ bid_objects = <<>>
    /\ passes_count = 0
    /\ turn = 0
    /\ bid_choice = NoChoice
    /\ has_double = FALSE
    /\ has_redouble = FALSE
    /\ pc = "ready"
    /\ error = "none"
    /\ contract \in LeftContracts
    /\ hands = [p \in Players |-> <<>>]
    /\ current_trick \in LeftTricks
    /\ last_trick_winner = NoPlayer
    /\ tricks = <<>>
    /\ trick_num \in {0, NumTricks}
    /\ trick_pos = 0
    /\ deck \in ShuffledDecks
    /\ team_tricks = NoTricks
    /\ round_scores = NoScores
    /\ players = POSITION_ORDER
    /\ teams = TeamsInit
    /\ round_number \in RoundNumbers
    /\ dealer \in IF round_number = 0 THEN {NoPlayer} \cup Players ELSE Players
    /\ players_order = IF dealer = NoPlayer THEN <<>> ELSE OrderAfter(dealer)
    /\ scores = [t \in Teams |-> 0]
    /\ game_result = NoResult

NextRound ==
    \E chosen \in Players, shuffled \in ShuffledDecks, cut_index \in 3 .. DeckSize - 4 :
        StartNewRound(chosen, shuffled, cut_index)

SpecRound == InitRound /\ [][NextRound]_vars

\* The hands dealt three, two, three from the cards, by place in the order.
DealtFrom(cards, order) ==
    [p \in Players |-> [k \in 1 .. 8 |-> cards[DealPlaces(PlaceIn(order, p))[k] + 1]]]

Standing(h) ==
    IF LastContractIndex(h) = 0 THEN 0
    ELSE 3 * ValueRank(h[LastContractIndex(h)].value)
           + (IF "Double" \in KindsAfter(h, LastContractIndex(h)) THEN 1 ELSE 0)
           + (IF "Redouble" \in KindsAfter(h, LastContractIndex(h)) THEN 1 ELSE 0)

\* C35: whatever the four players offer, valid or not, manage_bidding ends
\* after a bounded number of bids: the bidding cannot be prolonged forever.
\* Passes alone do not prolong it, since no more than three follow one another
\* while it goes on, and every other bid that enters the history takes the
\* bidding to a higher standing, of which there are finitely many.
C35_BiddingCannotGoOnForever ==
    [][\A choice \in BidChoices :
          Bid(choice) =>
             /\ bid_objects'[Len(bid_objects')].kind # "Pass" =>
                   Standing(bid_objects') > Standing(bid_objects)
             /\ pc' = "bidding" => TrailingPasses(bid_objects') <= 3]_vars


(***************************************************************************)
(* The biddings long enough to hold a Redouble: manage_bidding with        *)
(* players that offer Pass, Double, Redouble or a contract in Hearts, up   *)
(* to MaxFlagBids bids.                                                    *)
(***************************************************************************)
FlagChoices ==
    {[kind |-> k, value |-> 0, suit |-> "-"] : k \in {"Pass", "Double", "Redouble"}}
    \cup {[kind |-> "Tuple", value |-> v, suit |-> "Hearts"] : v \in OfferedValues}

\* The bid of a player of SpecFlags.
BidFlags(choice) == BidWithin(choice, MaxFlagBids)

NextFlags == \E choice \in FlagChoices : BidFlags(choice)

SpecFlags == Init /\ [][NextFlags]_vars

\* C36: in every contract resolved by manage_bidding the redouble flag is set
\* only if the double flag is set: no bidding gives a contract that is
\* redoubled without being doubled.  On the flags manage_bidding computes for
\* the contract once bidding has ended with a Contract bid.
C36_RedoubledOnlyIfDoubled ==
    (Ended /\ LastContractIndex(bid_objects) # 0) => (has_redouble => has_double)


\* C37: the legal set computed for a player is a non-empty subset of the
\* player's hand whenever the hand is not empty, and every card recorded in a
\* trick was, when it was played, in the hand of the player who played it and
\* in the legal set computed for that player, whatever the player returned: a
\* step of play_trick leaves the trick as it was or adds one play, of the
\* player asked, with a card of that hand and of that legal set, which leaves
\* the hand.
C37_RecordedCardsAreLegal ==
    [][Asking =>
          /\ hands[ToAct] # <<>> => (Legal # {} /\ Legal \subseteq HandOf(ToAct))
          /\ \/ current_trick' = current_trick
             \/ \E c \in Legal \cap HandOf(ToAct) :
                   /\ current_trick' = Append(current_trick, <<ToAct, c>>)
                   /\ hands' = [hands EXCEPT ![ToAct] = Remove(hands[ToAct], c)]
          /\ \A k \in DOMAIN tricks' \ DOMAIN tricks : tricks'[k] = current_trick']_vars

\* Under a Hearts contract the first player led the 7 of Spades and the
\* second, who holds no Spades, has a Heart in the trick.
C37_Witness ==
    /\ pc = "playing"
    /\ TrumpSuitOf(contract) = "Hearts"
    /\ Len(current_trick) = 2
    /\ current_trick[1] = <<0, Card("Spades", "7")>>
    /\ current_trick[2][1] = 1
    /\ current_trick[2][2].suit = "Hearts"
    /\ \E c \in HandOf(1) : c.suit = "Diamonds"


(***************************************************************************)
(* The points Contract computes itself (contract.py).                      *)
(***************************************************************************)
\* Contract.calculate_success_points(team_points)
CalculateSuccessPoints(c, team_points) ==
    LET base_value == GetBasePoints(c)
        multiplier == GetMultiplier(c)
    IN IF c.value = Capot THEN base_value * multiplier
       ELSE IF c.double \/ c.redouble THEN 160 + base_value * multiplier
       ELSE base_value + team_points

\* Contract.calculate_failure_points()
CalculateFailurePoints(c) == (160 + GetBasePoints(c)) * GetMultiplier(c)

\* C38: for every contract, numeric or Capot, plain, doubled or redoubled, and
\* every point total of the contracting team, calculate_success_points gives
\* the score calculate_round_scores assigns to the contracting team when the
\* round finds the contract made, and calculate_failure_points the score it
\* assigns to the defending team when the round finds the contract failed.
C38_ContractPointsAgreeWithRound ==
    Scored =>
        IF ContractMade(contract, RoundPoints[ContractTeam])
        THEN round_scores[ContractTeam]
                = CalculateSuccessPoints(contract, RoundPoints[ContractTeam])
        ELSE round_scores[DefendingTeam] = CalculateFailurePoints(contract)


(***************************************************************************)
(* The end of Game.manage_round (lines 336-348) on a round whose tricks    *)
(* have been played: calculate_scores, then the totals.  The round is      *)
(* given by its contract and by the points of the cards, belote and last   *)
(* trick of each team; rounds follow one another while no total has        *)
(* reached MaxTotal, and check_game_over may be called between them.       *)
(***************************************************************************)
MaxTotal == 600

TotalValues == {80}
TotalContracts ==
    {ContractInit(p, v, "Hearts", f[1], f[2]) :
        p \in {0, 1}, v \in TotalValues, f \in {<<FALSE, FALSE>>, <<TRUE, FALSE>>}}
\* team_card_points of the two teams.
PointSamples == {<<100, 62>>, <<10, 152>>}
TeamPoints(sample) == [t \in Teams |-> sample[t + 1]]

\* team_scores of Game.calculate_scores (lines 402-438), from the contract and
\* team_card_points.
GameFinalScores(c, points) ==
    LET contract_made == points[c.team] >= c.value
        multiplier == IF c.redouble THEN 4 ELSE IF c.double THEN 2 ELSE 1
    IN [t \in Teams |->
          IF contract_made
          THEN IF c.double \/ c.redouble
               THEN IF t = c.team THEN 160 + c.value * multiplier ELSE points[t]
               ELSE IF t = c.team THEN c.value + points[c.team] ELSE points[t]
          ELSE IF t = c.team THEN 0 ELSE (160 + c.value) * multiplier]

\* The totals replaced by the scores of the round.
TotalsReplaced(totals, points) == points

\* self.scores[team_name] += points, for each team.
TotalsAdded(totals, points) == [t \in Teams |-> totals[t] + points[t]]

\* Lines 336-348 of manage_round.
ScoreRound(c, sample) ==
    /\ pc = "ready"
    /\ MaxScore(scores) < MaxTotal
    /\ round_scores' = GameFinalScores(c, TeamPoints(sample))
    /\ scores' = TotalsAdded(scores, round_scores')
    /\ game_result' = [kind |-> "dict", contract |-> c, scores |-> round_scores',
                       total_scores |-> scores', message |-> "Round completed"]
    /\ contract' = c
    /\ UNCHANGED <<players, teams, dealer, players_order, round_number>>
    /\ UNCHANGED <<bidVars, pc, error, hands, deck, current_trick, last_trick_winner,
                   tricks, trick_num, trick_pos, team_tricks>>

InitTotals ==
    /\ bid_objects = <<>>
    /\ passes_count = 0
    /\ turn = 0
    /\ bid_choice = NoChoice
    /\ has_double = FALSE
    /\ has_redouble = FALSE
    /\ pc = "ready"
    /\ error = "none"
    /\ contract = None
    /\ hands = [p \in Players |-> <<>>]
    /\ current_trick = <<>>
    /\ last_trick_winner = NoPlayer
    /\ tricks = <<>>
    /\ trick_num = 0
    /\ trick_pos = 0
    /\ deck = DeckInit
    /\ team_tricks = NoTricks
    /\ round_scores = NoScores
    /\ players = POSITION_ORDER
    /\ teams = TeamsInit
    /\ dealer = NoPlayer
    /\ players_order = <<>>
    /\ round_number = 0
    /\ scores = [t \in Teams |-> 0]
    /\ game_result = NoResult

NextTotals ==
    \/ \E c \in TotalContracts, sample \in PointSamples : ScoreRound(c, sample)
    \/ \E target_score \in Targets : CheckGameOver(target_score)

SpecTotals == InitTotals /\ [][NextTotals]_vars

\* C39: the scores of a round are never negative, so the cumulative score of
\* a team never decreases from one round to the next; hence, for a given
\* target, once check_game_over reports the game over it reports it over after
\* every later round.
C39_GameOverStaysOver ==
    [][\A c \in TotalContracts, sample \in PointSamples :
          ScoreRound(c, sample) =>
             /\ \A t \in Teams : round_scores'[t] >= 0
             /\ \A t \in Teams : FinalScores(c, TeamPoints(sample))[t] >= 0
             /\ \A t \in Teams : scores'[t] >= scores[t]
             /\ \A target_score \in Targets :
                   GameOverResult(teams, scores, target_score).game_over =>
                      GameOverResult(teams, scores', target_score).game_over]_vars

\* North-South had 500 points or more before the last round, which gave them
\* more, and check_game_over(500) has just reported the game over again.
C39_Witness ==
    /\ round_scores # NoScores
    /\ round_scores[0] > 0
    /\ scores[0] - round_scores[0] >= 500
    /\ game_result.kind = "dict"
    /\ "game_over" \in DOMAIN game_result
    /\ game_result.game_over
    /\ game_result.final_scores = <<scores>>


(***************************************************************************)
(* The play rules as class Game has them (game.py).  The current trick of  *)
(* a Game is a list of (player, card), its contract a dict whose 'suit' is *)
(* the trump suit.                                                         *)
(***************************************************************************)
\* The loop of Game.get_playable_cards over self.current_trick, from play i
\* on, with highest_opponent_trump (NoCard for None).
RECURSIVE GameHighestOpponentTrumpFrom(_, _, _, _, _)
GameHighestOpponentTrumpFrom(trick, i, player, trump_suit, highest) ==
    IF i > Len(trick) THEN highest
    ELSE IF /\ trick[i][2].suit = trump_suit
            /\ Team(trick[i][1]) # Team(player)
            /\ (highest = NoCard
                  \/ GetOrder(trick[i][2], trump_suit) > GetOrder(highest, trump_suit))
         THEN GameHighestOpponentTrumpFrom(trick, i + 1, player, trump_suit, trick[i][2])
         ELSE GameHighestOpponentTrumpFrom(trick, i + 1, player, trump_suit, highest)

\* Game.get_playable_cards without the rule of the partner who leads.
GameGetPlayableCardsPartnerBound(hand, player, trick, trump_suit) ==
    IF hand = <<>> THEN <<>>
    ELSE IF trick = <<>> THEN hand
    ELSE IF SelectSeq(hand, LAMBDA c : c.suit = trick[1][2].suit) # <<>>
    THEN SelectSeq(hand, LAMBDA c : c.suit = trick[1][2].suit)
    ELSE IF trump_suit = "None" \/ trick[1][2].suit = trump_suit THEN hand
    ELSE LET trump_cards == SelectSeq(hand, LAMBDA c : c.suit = trump_suit)
         IN IF trump_cards # <<>> THEN trump_cards ELSE hand

\* Game.get_playable_cards(player)
GameGetPlayableCards(hand, player, trick, trump_suit) ==
    IF hand = <<>> THEN <<>>
    ELSE IF trick = <<>> THEN hand
    ELSE IF SelectSeq(hand, LAMBDA c : c.suit = trick[1][2].suit) # <<>>
    THEN SelectSeq(hand, LAMBDA c : c.suit = trick[1][2].suit)
    ELSE IF Team(trick[1][1]) = Team(player) THEN hand
    ELSE IF trump_suit = "None" \/ trick[1][2].suit = trump_suit THEN hand
    ELSE LET trump_cards == SelectSeq(hand, LAMBDA c : c.suit = trump_suit)
             highest_opponent_trump ==
                 GameHighestOpponentTrumpFrom(trick, 1, player, trump_suit, NoCard)
             higher_trumps ==
                 SelectSeq(trump_cards,
                           LAMBDA c : GetOrder(c, trump_suit)
                                         > GetOrder(highest_opponent_trump, trump_suit))
         IN IF highest_opponent_trump # NoCard
            THEN IF higher_trumps # <<>> THEN higher_trumps
                 ELSE IF trump_cards # <<>> THEN trump_cards
                 ELSE hand
            ELSE IF trump_cards # <<>> THEN trump_cards
            ELSE hand

\* The loop of Game._determine_trick_winner over trick[1:], from play i on,
\* with best_player and best_card.
RECURSIVE GameBestFrom(_, _, _, _, _)
GameBestFrom(trick, i, trump_suit, best_player, best_card) ==
    IF i > Len(trick) THEN best_player
    ELSE LET card_is_trump == trump_suit # "None" /\ trick[i][2].suit = trump_suit
             best_is_trump == trump_suit # "None" /\ best_card.suit = trump_suit
             better ==
                 \/ card_is_trump /\ ~best_is_trump
                 \/ /\ card_is_trump
                    /\ best_is_trump
                    /\ GetOrder(trick[i][2], trump_suit) > GetOrder(best_card, trump_suit)
                 \/ /\ ~card_is_trump
                    /\ ~best_is_trump
                    /\ trick[i][2].suit = trick[1][2].suit
                    /\ GetOrder(trick[i][2], "None") > GetOrder(best_card, "None")
         IN IF better
            THEN GameBestFrom(trick, i + 1, trump_suit, trick[i][1], trick[i][2])
            ELSE GameBestFrom(trick, i + 1, trump_suit, best_player, best_card)

\* Game._determine_trick_winner(trick)
GameDetermineTrickWinner(trick, trump_suit) ==
    IF trick = <<>> THEN NoPlayer
    ELSE GameBestFrom(trick, 2, trump_suit, trick[1][1], trick[1][2])

\* C40: the two implementations of the play rules agree: for the same hands,
\* plays of the trick in progress, teams and trump suit, Game.get_playable_cards
\* and Round._get_playable_cards return the same legal cards for every player,
\* and Game._determine_trick_winner and Round._determine_trick_winner the same
\* winner.
C40_GameAndRoundAgree ==
    /\ \A p \in Players :
          GameGetPlayableCards(hands[p], p, current_trick, TrumpSuitOf(contract))
             = GetPlayableCards(hands[p], p, current_trick, TrumpSuitOf(contract))
    /\ GameDetermineTrickWinner(current_trick, TrumpSuitOf(contract))
          = DetermineTrickWinner(current_trick, TrumpSuitOf(contract))

\* Under a Hearts contract the first player led the 7 of Spades and the
\* second trumped; the third, partner of the leader, holds Hearts and no
\* Spades, and may play any card, while the second player is winning.
C40_Witness ==
    /\ pc = "playing"
    /\ TrumpSuitOf(contract) = "Hearts"
    /\ Len(current_trick) = 2
    /\ current_trick[1] = <<0, Card("Spades", "7")>>
    /\ current_trick[2][2].suit = "Hearts"
    /\ \A c \in HandOf(2) : c.suit # "Spades"
    /\ \E c \in HandOf(2) : c.suit = "Hearts"
    /\ \E c \in HandOf(2) : c.suit = "Diamonds"
    /\ GameGetPlayableCards(hands[2], 2, current_trick, "Hearts") = hands[2]
    /\ GameDetermineTrickWinner(current_trick, "Hearts") = 1

====
